---- MODULE Spec2Model ----
(***************************************************************************)
(* A model of smarticles: the simulation thread (src/src/simulation.rs),   *)
(* the presentation thread (src/src/ui.rs) and the two mpsc channels       *)
(* between them.                                                           *)
(*                                                                         *)
(* Numbers.  The program computes in f32.  Here a configuration value      *)
(* (force, radius, world radius) is an integer in its natural unit, and a  *)
(* coordinate of a position or of a velocity is a fixed-point number: the  *)
(* integer n stands for n / SCALE.  Factors below one are integers in      *)
(* thousandths (FORCE_FACTOR = 2 stands for 2/1000 = 1/500).  Every        *)
(* operation rounds its result to the nearest representable value, as an   *)
(* f32 operation does, only more coarsely.                                 *)
(***************************************************************************)
EXTENDS Integers, Sequences, FiniteSets, TLC

(***************************************************************************)
(* Capacities.  The program allocates MAX_CLASSES x MAX_PARTICLE_COUNT     *)
(* slots (8 x 1200) and the class slider spans MIN_CLASSES..MAX_CLASSES    *)
(* (3..8); the model runs on a smaller table.                              *)
(***************************************************************************)
MIN_CLASSES == 1
MAX_CLASSES == 2
MAX_PARTICLE_COUNT == 2
MIN_PARTICLE_COUNT == 0

\* Bounds of a run: handlers of the presentation thread, steps of the engine.
MaxUiOps == 4
MaxSteps == 1

(***************************************************************************)
(* Program constants.                                                      *)
(***************************************************************************)
DEFAULT_WORLD_RADIUS == 900
MIN_WORLD_RADIUS == 200
MAX_WORLD_RADIUS == 1200

DEFAULT_FORCE == 0
MAX_FORCE == 100
MIN_FORCE == -MAX_FORCE
\* 1. / 500., in thousandths
FORCE_FACTOR == 2

DEFAULT_RADIUS == 80
RAMP_START_RADIUS == 30
MIN_RADIUS == RAMP_START_RADIUS
MAX_RADIUS == 100
RAMP_LENGTH == 10
\* 20. * FORCE_FACTOR and 10. * FORCE_FACTOR, in thousandths
CLOSE_FORCE == 20 * FORCE_FACTOR
BORDER_FORCE == 10 * FORCE_FACTOR
\* 0.4, in thousandths
DEFAULT_DAMPING_FACTOR == 400
POS_FACTOR == 40
\* Duration::from_millis(30); as_secs_f32() is UPDATE_INTERVAL / 1000
UPDATE_INTERVAL == 30
SPAWN_AREA_RADIUS == 40

\* Fixed-point resolution of a coordinate: n stands for n / SCALE.
SCALE == 256
Thousand == 1000

Classes == 0 .. (MAX_CLASSES - 1)
Slots == 0 .. (MAX_PARTICLE_COUNT - 1)

(***************************************************************************)
(* f32 arithmetic on fixed-point numbers and Vec2.                         *)
(***************************************************************************)
Abs(a) == IF a < 0 THEN -a ELSE a

\* a / b rounded to the nearest integer, halves away from zero (b > 0).
RDiv(a, b) ==
    IF a >= 0 THEN (2 * a + b) \div (2 * b)
              ELSE -((2 * (-a) + b) \div (2 * b))

RECURSIVE SqrtSearch(_, _, _)
SqrtSearch(n, lo, hi) ==
    IF lo >= hi THEN lo
    ELSE LET mid == (lo + hi + 1) \div 2
         IN  IF mid * mid <= n THEN SqrtSearch(n, mid, hi)
                               ELSE SqrtSearch(n, lo, mid - 1)

\* f32::sqrt: the nearest integer to the square root of n.
Sqrt(n) ==
    LET r == SqrtSearch(n, 0, 46340)
    IN  IF n - r * r > r THEN r + 1 ELSE r

ZERO == <<0, 0>>
VAdd(a, b) == <<a[1] + b[1], a[2] + b[2]>>
VSub(a, b) == <<a[1] - b[1], a[2] - b[2]>>
VNeg(a) == <<-a[1], -a[2]>>
\* Vec2 * f32, the factor in thousandths
VMulMilli(v, m) == <<RDiv(v[1] * m, Thousand), RDiv(v[2] * m, Thousand)>>
\* Vec2 * f32, the factor a fixed-point number
VMulFixed(v, f) == <<RDiv(v[1] * f, SCALE), RDiv(v[2] * f, SCALE)>>
\* Vec2 * f32, the factor an integer
VMulInt(v, k) == <<v[1] * k, v[2] * k>>

\* How much coarser a long vector is rounded: an f32 keeps 24 bits, so the
\* longer the vector the coarser its length.
COARSE == 16

\* Vec2::length.  (A component of 32768 or more is rounded to a multiple of
\* COARSE first: the sum of the squares stays within the integers of TLC.)
Length(v) ==
    IF Abs(v[1]) < 32768 /\ Abs(v[2]) < 32768
    THEN Sqrt(v[1] * v[1] + v[2] * v[2])
    ELSE COARSE * Sqrt(RDiv(v[1], COARSE) * RDiv(v[1], COARSE)
                          + RDiv(v[2], COARSE) * RDiv(v[2], COARSE))

\* Vec2::normalized: the vector itself when its length is zero.
Normalized(v) ==
    LET len == Length(v)
    IN  IF len <= 0 THEN v
        ELSE <<RDiv(v[1] * SCALE, len), RDiv(v[2] * SCALE, len)>>

\* A value in its natural unit as a fixed-point number.
Fixed(k) == k * SCALE

(***************************************************************************)
(* The force kernel.                                                       *)
(***************************************************************************)
\* The ramp without its plateau: 2 (x - zero) / (zero + const_start).
ramp_without_plateau(x, zero, const_start) ==
    RDiv(2 * (x - Fixed(zero)), zero + const_start)

\* ramp_then_const(x, zero, const_start): x and the result are fixed-point.
ramp_then_const(x, zero, const_start) ==
    RDiv(-Abs(x - Fixed(zero) - Fixed(const_start)) + x - Fixed(zero)
            + Fixed(const_start),
         zero + const_start)

\* The kernel with "r <= action_radius" for the test of its first arm.
get_partial_velocity_inclusive(distance, action_radius, force) ==
    LET r == Length(distance)
    IN  IF Fixed(RAMP_START_RADIUS) < r /\ r <= Fixed(action_radius)
        THEN VMulFixed(VMulMilli(Normalized(distance), force),
                       ramp_then_const(r, RAMP_START_RADIUS, RAMP_LENGTH))
        ELSE IF 0 < r /\ r <= Fixed(RAMP_START_RADIUS)
        THEN VMulFixed(VMulMilli(Normalized(distance), CLOSE_FORCE),
                       RDiv(r, RAMP_START_RADIUS) - Fixed(1))
        ELSE ZERO

\* The kernel with the configured force in its second arm too.
get_partial_velocity_scaled(distance, action_radius, force) ==
    LET r == Length(distance)
    IN  IF Fixed(RAMP_START_RADIUS) < r /\ r < Fixed(action_radius)
        THEN VMulFixed(VMulMilli(Normalized(distance), force),
                       ramp_then_const(r, RAMP_START_RADIUS, RAMP_LENGTH))
        ELSE IF 0 < r /\ r <= Fixed(RAMP_START_RADIUS)
        THEN VMulFixed(VMulMilli(Normalized(distance), force),
                       RDiv(r, RAMP_START_RADIUS) - Fixed(1))
        ELSE ZERO

\* get_partial_velocity(distance, action_radius, force): distance and the
\* result are fixed-point vectors, action_radius is in its natural unit and
\* force is in thousandths.
get_partial_velocity(distance, action_radius, force) ==
    LET r == Length(distance)
    IN  IF Fixed(RAMP_START_RADIUS) < r /\ r < Fixed(action_radius)
        THEN VMulFixed(VMulMilli(Normalized(distance), force),
                       ramp_then_const(r, RAMP_START_RADIUS, RAMP_LENGTH))
        ELSE IF 0 < r /\ r <= Fixed(RAMP_START_RADIUS)
        THEN VMulFixed(VMulMilli(Normalized(distance), CLOSE_FORCE),
                       RDiv(r, RAMP_START_RADIUS) - Fixed(1))
        ELSE ZERO

(***************************************************************************)
(* SharedState: the configuration each thread holds a copy of.             *)
(***************************************************************************)
Param(force, radius) == [force |-> force, radius |-> radius]

\* The configuration of a freshly constructed thread: Stopped, the default
\* world radius, every class shown, no particle, default parameters.
SharedStateNew ==
    [simulation_state |-> "Stopped",
     world_radius     |-> DEFAULT_WORLD_RADIUS,
     class_count      |-> MAX_CLASSES,
     particle_counts  |-> [c \in Classes |-> 0],
     param_matrix     |-> [i \in Classes |->
                             [j \in Classes |-> Param(DEFAULT_FORCE, DEFAULT_RADIUS)]]]

\* Array2D::filled_with(Vec2::ZERO, MAX_CLASSES, MAX_PARTICLE_COUNT)
ZeroTable == [c \in Classes |-> [p \in Slots |-> ZERO]]

(***************************************************************************)
(* UiEvent and SimResults, the messages of the two channels.               *)
(***************************************************************************)
Play == [type |-> "Play"]
Pause == [type |-> "Pause"]
Reset == [type |-> "Reset"]
Spawn == [type |-> "Spawn"]
Quit == [type |-> "Quit"]
ParamsUpdate(params) == [type |-> "ParamsUpdate", params |-> params]
ClassCountUpdate(class_count) ==
    [type |-> "ClassCountUpdate", class_count |-> class_count]
ParticleCountsUpdate(particle_counts) ==
    [type |-> "ParticleCountsUpdate", particle_counts |-> particle_counts]
WorldRadiusUpdate(world_radius) ==
    [type |-> "WorldRadiusUpdate", world_radius |-> world_radius]

\* Every result sent with None for its duration.
SimResultsWithoutDuration(elapsed, positions) ==
    [elapsed |-> <<>>, positions |-> positions]

\* Option<Duration>: <<>> is None, <<d>> is Some(d).
SimResults(elapsed, positions) == [elapsed |-> elapsed, positions |-> positions]

(***************************************************************************)
(* The state.                                                              *)
(***************************************************************************)
VARIABLES
    \* Simulation (the simulation thread)
    sim_shared,           \* Simulation.shared
    particle_positions,   \* Simulation.particle_positions
    particle_velocities,  \* Simulation.particle_velocities
    sim_pc,               \* where the thread is: "update", "events", "move",
                          \* "exited" (update returned false), "panicked"
    events,               \* update's local Vec of drained events, unprocessed part
    c1, c2,               \* move_particles' loop indices
    \* the channels
    ui_rcv,               \* UiEvents sent and not yet received
    sim_rcv,              \* SimResults sent and not yet received
    \* Smarticles (the presentation thread)
    ui_shared,            \* Smarticles.shared
    ui_positions,         \* Smarticles.particle_positions
    calculation_time,     \* Smarticles.calculation_time
    seed,                 \* Smarticles.seed, a sequence of character codes
    ui_pc,                \* "frame", "joining", "closed", "panicked"
    ui_sending,           \* the sends the running handler still has to make
    history,              \* Smarticles.history, the seeds applied, oldest first
    selected_history_entry, \* Smarticles.selected_history_entry
    selected_particle,    \* Smarticles.selected_particle, <<class, index>>
    \* history variables
    move_start,           \* particle_positions when move_particles was entered
    move_start_velocities, \* particle_velocities when it was entered
    last_event,           \* the event the simulation thread processed last
    last_ui,              \* the handler the presentation thread ran last
    expected,             \* the shared state the events sent so far lead to
    taken,                \* how many results the last frame that found any took
    ui_ops,               \* handlers run so far
    codec_in,             \* the configuration a run of export alone starts
                          \* from, <<>> in a run of the two threads
    kernel,               \* the arguments and the result of a run of
                          \* get_partial_velocity alone, <<>> in any other run
    updates,              \* how many passes of the step under way have
                          \* written the rows of each class
    steps                 \* calls of move_particles so far

sim_vars == <<sim_shared, particle_positions, particle_velocities, sim_pc,
              events, c1, c2, move_start, move_start_velocities, last_event,
              updates, steps>>
ui_vars == <<ui_shared, ui_positions, calculation_time, seed, ui_pc,
             ui_sending, history, selected_history_entry, last_ui, expected,
             taken, ui_ops, codec_in, kernel, selected_particle>>
vars == <<sim_shared, particle_positions, particle_velocities, sim_pc, events,
          c1, c2, ui_rcv, sim_rcv, ui_shared, ui_positions, calculation_time,
          seed, ui_pc, ui_sending, history, selected_history_entry,
          move_start, move_start_velocities, last_event, last_ui, expected,
          taken, ui_ops, codec_in, kernel, selected_particle, updates,
          steps>>

Init ==
    /\ sim_shared = SharedStateNew
    /\ particle_positions = ZeroTable
    /\ particle_velocities = ZeroTable
    /\ sim_pc = "update"
    /\ events = <<>>
    /\ c1 = 0
    /\ c2 = 0
    /\ ui_rcv = <<>>
    /\ sim_rcv = <<>>
    /\ ui_shared = SharedStateNew
    /\ ui_positions = ZeroTable
    /\ calculation_time = 0
    /\ seed = <<>>
    /\ ui_pc = "frame"
    /\ ui_sending = <<>>
    /\ history = <<>>
    /\ selected_history_entry = 0
    /\ codec_in = <<>>
    /\ move_start = ZeroTable
    /\ move_start_velocities = ZeroTable
    /\ last_event = "none"
    /\ last_ui = "none"
    /\ expected = SharedStateNew
    /\ taken = 0
    /\ ui_ops = 0
    /\ kernel = <<>>
    /\ selected_particle = <<0, 0>>
    /\ updates = [c \in Classes |-> 0]
    /\ steps = 0

(***************************************************************************)
(* Simulation: the engine's operations.                                    *)
(***************************************************************************)
\* An index into particle_counts / param_matrix, and into a row of the
\* position and velocity tables: indexing past the end panics.
ClassInBounds(c) == c \in Classes
SlotsInBounds(n) == n <= MAX_PARTICLE_COUNT

\* The (class, slot) pairs the loops "for c in 0..class_count, for p in
\* 0..particle_counts[c]" visit.
Active(shared, c, p) ==
    /\ c < shared.class_count
    /\ p < shared.particle_counts[c]

\* Whether such a pair of loops indexes out of bounds.
LoopsPanic(shared) ==
    \/ shared.class_count > MAX_CLASSES
    \/ \E c \in Classes :
          c < shared.class_count /\ ~SlotsInBounds(shared.particle_counts[c])

\* reset_particles: the position of every active slot becomes Vec2::ZERO;
\* velocities are not written.
reset_particles(shared, positions) ==
    [c \in Classes |-> [p \in Slots |->
        IF Active(shared, c, p) THEN ZERO ELSE positions[c][p]]]

\* reset without its last loop: the parameters are left as they were.
reset_shared_keeps_params(shared) ==
    [shared EXCEPT
        !.simulation_state = "Stopped",
        !.world_radius = DEFAULT_WORLD_RADIUS,
        !.particle_counts = [c \in Classes |-> 0]]

\* reset: the state, the world radius, the counts, then reset_particles (with
\* the counts already zero), then the parameters.
reset_shared(shared) ==
    [shared EXCEPT
        !.simulation_state = "Stopped",
        !.world_radius = DEFAULT_WORLD_RADIUS,
        !.particle_counts = [c \in Classes |-> 0],
        !.param_matrix = [i \in Classes |->
                            [j \in Classes |-> Param(DEFAULT_FORCE, DEFAULT_RADIUS)]]]

reset_positions(shared, positions) ==
    reset_particles([shared EXCEPT !.particle_counts = [c \in Classes |-> 0]],
                    positions)

\* The points SmallRng::from_entropy() can make spawn draw, SPAWN_AREA_RADIUS
\* * Vec2::angled(TAU * u) * v with u, v in (0, 1): a few points of the open
\* disk of radius SPAWN_AREA_RADIUS, fixed-point.
SpawnPoints ==
    << <<Fixed(20), 0>>, <<-Fixed(20), 0>>, <<-Fixed(16), Fixed(3)>>,
       <<0, -Fixed(36)>> >>

\* How many of the generator's streams a run tries.
MaxEntropy == 2
Entropy == 0 .. (MaxEntropy - 1)

\* The k-th point the generator seeded with e draws.
Draw(e, k) == SpawnPoints[((e + k) % Len(SpawnPoints)) + 1]

\* The number of active slots spawn's loops visit before (c, p).
RECURSIVE SlotsBefore(_, _)
SlotsBefore(shared, c) ==
    IF c <= 0 THEN 0
    ELSE SlotsBefore(shared, c - 1) + shared.particle_counts[c - 1]

\* spawn: reset_particles, then a fresh draw for every active slot.
spawn_positions(shared, positions, e) ==
    [c \in Classes |-> [p \in Slots |->
        IF Active(shared, c, p) THEN Draw(e, SlotsBefore(shared, c) + p)
        ELSE reset_particles(shared, positions)[c][p]]]

(***************************************************************************)
(* move_particles: one pass, for the ordered pair of classes (a, b).       *)
(***************************************************************************)
\* The inner loop over p2: the sum of the partial velocities, in slot order.
RECURSIVE SumPartial(_, _, _, _, _, _)
SumPartial(positions, pos, b, n, radius, force) ==
    IF n <= 0 THEN ZERO
    ELSE VAdd(SumPartial(positions, pos, b, n - 1, radius, force),
              get_partial_velocity(VSub(positions[b][n - 1], pos), radius, force))

\* The closure with its inner loop over every slot of the row of b, not
\* only the first particle_counts[b].
MapParticleAllSlots(shared, positions, velocities, a, b, p1) ==
    LET param == shared.param_matrix[a][b]
        force == -param.force * FORCE_FACTOR
        radius == param.radius
        pos == positions[a][p1]
        vel == velocities[a][p1]
        sum == SumPartial(positions, pos, b, MAX_PARTICLE_COUNT, radius, force)
        r == Length(pos)
        dv == IF r >= Fixed(shared.world_radius)
              THEN VAdd(sum, VMulFixed(VMulMilli(VNeg(Normalized(pos)), BORDER_FORCE),
                                       r - Fixed(shared.world_radius)))
              ELSE sum
        vel2 == VMulMilli(VAdd(vel, dv), DEFAULT_DAMPING_FACTOR)
        pos2 == VAdd(pos, VMulMilli(VMulInt(vel2, POS_FACTOR), UPDATE_INTERVAL))
    IN  [pos |-> pos2, vel |-> vel2]

\* The closure without the damping: vel = vel + dv.
MapParticleUndamped(shared, positions, velocities, a, b, p1) ==
    LET param == shared.param_matrix[a][b]
        force == -param.force * FORCE_FACTOR
        radius == param.radius
        pos == positions[a][p1]
        vel == velocities[a][p1]
        sum == SumPartial(positions, pos, b, shared.particle_counts[b],
                          radius, force)
        r == Length(pos)
        dv == IF r >= Fixed(shared.world_radius)
              THEN VAdd(sum, VMulFixed(VMulMilli(VNeg(Normalized(pos)), BORDER_FORCE),
                                       r - Fixed(shared.world_radius)))
              ELSE sum
        vel2 == VAdd(vel, dv)
        pos2 == VAdd(pos, VMulMilli(VMulInt(vel2, POS_FACTOR), UPDATE_INTERVAL))
    IN  [pos |-> pos2, vel |-> vel2]

\* The closure without the negation of the force: force = param.force *
\* FORCE_FACTOR.
MapParticleAttracts(shared, positions, velocities, a, b, p1) ==
    LET param == shared.param_matrix[a][b]
        force == param.force * FORCE_FACTOR
        radius == param.radius
        pos == positions[a][p1]
        vel == velocities[a][p1]
        sum == SumPartial(positions, pos, b, shared.particle_counts[b],
                          radius, force)
        r == Length(pos)
        dv == IF r >= Fixed(shared.world_radius)
              THEN VAdd(sum, VMulFixed(VMulMilli(VNeg(Normalized(pos)), BORDER_FORCE),
                                       r - Fixed(shared.world_radius)))
              ELSE sum
        vel2 == VMulMilli(VAdd(vel, dv), DEFAULT_DAMPING_FACTOR)
        pos2 == VAdd(pos, VMulMilli(VMulInt(vel2, POS_FACTOR), UPDATE_INTERVAL))
    IN  [pos |-> pos2, vel |-> vel2]

\* The closure of the parallel map: the new (pos, vel) of particle (a, p1),
\* read from the tables as they are when the pass starts.
MapParticle(shared, positions, velocities, a, b, p1) ==
    LET param == shared.param_matrix[a][b]
        force == -param.force * FORCE_FACTOR
        radius == param.radius
        pos == positions[a][p1]
        vel == velocities[a][p1]
        sum == SumPartial(positions, pos, b, shared.particle_counts[b],
                          radius, force)
        r == Length(pos)
        dv == IF r >= Fixed(shared.world_radius)
              THEN VAdd(sum, VMulFixed(VMulMilli(VNeg(Normalized(pos)), BORDER_FORCE),
                                       r - Fixed(shared.world_radius)))
              ELSE sum
        vel2 == VMulMilli(VAdd(vel, dv), DEFAULT_DAMPING_FACTOR)
        pos2 == VAdd(pos, VMulMilli(VMulInt(vel2, POS_FACTOR), UPDATE_INTERVAL))
    IN  [pos |-> pos2, vel |-> vel2]

\* A loop that writes each result back as soon as it has it: the tables
\* after the first k particles of class a.
RECURSIVE TablesInPlace(_, _, _, _, _, _)
TablesInPlace(shared, positions, velocities, a, b, k) ==
    IF k <= 0 THEN [positions |-> positions, velocities |-> velocities]
    ELSE LET before == TablesInPlace(shared, positions, velocities, a, b, k - 1)
             res == MapParticle(shared, before.positions, before.velocities,
                                a, b, k - 1)
         IN  [positions |-> [before.positions EXCEPT ![a][k - 1] = res.pos],
              velocities |-> [before.velocities EXCEPT ![a][k - 1] = res.vel]]

\* The results of that loop.
CollectedInPlace(shared, positions, velocities, a, b) ==
    [p1 \in {p \in Slots : p < shared.particle_counts[a]} |->
        LET before == TablesInPlace(shared, positions, velocities, a, b, p1)
        IN  MapParticle(shared, before.positions, before.velocities, a, b, p1)]

\* collect(): the results of the map for p1 in 0..particle_counts[a].
Collected(shared, positions, velocities, a, b) ==
    [p1 \in {p \in Slots : p < shared.particle_counts[a]} |->
        MapParticle(shared, positions, velocities, a, b, p1)]

\* The write-back to the rows of the second class of the pair.
WriteBackSecondClass(a, b) == b

\* The class whose rows the write-back loop assigns.
WriteBackClass(a, b) == a

\* for_each: the write-back of the collected results.
PassPositions(shared, positions, velocities, a, b) ==
    LET res == Collected(shared, positions, velocities, a, b)
    IN  [positions EXCEPT ![WriteBackClass(a, b)] =
            [p \in Slots |-> IF p \in DOMAIN res THEN res[p].pos ELSE @[p]]]

PassVelocities(shared, positions, velocities, a, b) ==
    LET res == Collected(shared, positions, velocities, a, b)
    IN  [velocities EXCEPT ![WriteBackClass(a, b)] =
            [p \in Slots |-> IF p \in DOMAIN res THEN res[p].vel ELSE @[p]]]

\* Whether the pass indexes a table out of bounds.
PassPanics(shared, a, b) ==
    \/ ~ClassInBounds(a)
    \/ ~ClassInBounds(b)
    \/ ~SlotsInBounds(shared.particle_counts[a])
    \/ shared.particle_counts[a] > 0 /\ ~SlotsInBounds(shared.particle_counts[b])

(***************************************************************************)
(* The simulation thread: Simulation::update, called in a loop.            *)
(***************************************************************************)
\* The thread's loop: it calls update again while update returns true.
LoopAfterUpdate(result) == IF result THEN "update" ELSE "exited"

\* The receiver counted as gone only once the window has been closed.
ReceiverDroppedWhenClosed == ui_pc = "closed"

\* Whether the receiving end of the result channel is gone: Smarticles, which
\* owns it, is dropped when the presentation thread ends.
ResultReceiverDropped == ui_pc \in {"closed", "panicked"}

\* The simulation state update would see once it has processed evs, "Quit"
\* when it returns before that.
RECURSIVE StateAfter(_, _)
StateAfter(state, evs) ==
    IF evs = <<>> THEN state
    ELSE LET t == Head(evs).type
         IN  IF t = "Quit" THEN "Quit"
             ELSE StateAfter(CASE t = "Play" -> "Running"
                               [] t = "Pause" -> "Paused"
                               [] t = "Reset" -> "Stopped"
                               [] OTHER -> state,
                             Tail(evs))

\* try_recv() in place of try_iter(): the first event only.
CollectOne(queue) == IF queue = <<>> THEN <<>> ELSE <<Head(queue)>>

\* try_iter().collect(): every event of the queue, in the queue's order.
Collect(queue) == queue

\* iter() in place of try_iter(): update waits for an event.
CanCollectBlocking(queue) == queue /= <<>>

\* try_iter() does not wait: update goes on whatever the queue holds.
CanCollect(queue) == TRUE

\* Lines 101-102: self.ui_rcv.try_iter().collect().  (A run ends after
\* MaxSteps steps: a tick that would step past them does not start.)
SimCollect ==
    /\ sim_pc = "update"
    /\ CanCollect(ui_rcv)
    /\ StateAfter(sim_shared.simulation_state, ui_rcv) = "Running" => steps < MaxSteps
    /\ events' = Collect(ui_rcv)
    /\ ui_rcv' = SubSeq(ui_rcv, Len(events') + 1, Len(ui_rcv))
    /\ sim_pc' = "events"
    /\ UNCHANGED <<sim_shared, particle_positions, particle_velocities, c1, c2,
                   sim_rcv, move_start, move_start_velocities, last_event, updates, steps>>
    /\ UNCHANGED ui_vars

\* play without its assignment.
play_keeps_state(shared) == shared

\* UpdateSharedState for Simulation: play and pause.
play(shared) == [shared EXCEPT !.simulation_state = "Running"]

\* pause with the state of reset.
pause_stops(shared) == [shared EXCEPT !.simulation_state = "Stopped"]

pause(shared) == [shared EXCEPT !.simulation_state = "Paused"]

\* The Quit arm without its return.
NeverReturnsFalse(event) == FALSE

\* Line 112: whether update returns false at this event.
ReturnsFalse(event) == event.type = "Quit"

\* The test of line 123 as "!= Stopped".
ShouldStepUnlessStopped(shared) == shared.simulation_state /= "Stopped"

\* Line 123: whether update steps.
ShouldStep(shared) == shared.simulation_state = "Running"

\* The two loops nested the other way round, c2 outside and c1 inside.
NextPassSwapped(a, b, n) ==
    IF a + 1 < n THEN <<a + 1, b>>
    ELSE IF b + 1 < n THEN <<0, b + 1>> ELSE <<n, 0>>

\* The loops "for c1 in 0..n, for c2 in 0..n": the pair after (a, b).
NextPass(a, b, n) == IF b + 1 < n THEN <<a, b + 1>> ELSE <<a + 1, 0>>

\* The arms of the match on one event that assign a field of shared.
ApplyToShared(shared, event) ==
    CASE event.type = "Play" -> play(shared)
      [] event.type = "Pause" -> pause(shared)
      [] event.type = "Reset" -> reset_shared(shared)
      [] event.type = "ParamsUpdate" -> [shared EXCEPT !.param_matrix = event.params]
      [] event.type = "ClassCountUpdate" ->
            [shared EXCEPT !.class_count = event.class_count]
      [] event.type = "ParticleCountsUpdate" ->
            [shared EXCEPT !.particle_counts = event.particle_counts]
      [] event.type = "WorldRadiusUpdate" ->
            [shared EXCEPT !.world_radius = event.world_radius]
      [] OTHER -> shared

\* Lines 103-121: the loop body for the next collected event.
SimEvent ==
    /\ sim_pc = "events"
    /\ events /= <<>>
    /\ LET event == Head(events)
       IN  /\ last_event' = event.type
           /\ CASE ReturnsFalse(event) ->
                   /\ sim_pc' = LoopAfterUpdate(FALSE)
                   /\ events' = <<>>
                   /\ UNCHANGED <<sim_shared, particle_positions, sim_rcv>>
                [] event.type = "Spawn" ->
                   IF LoopsPanic(sim_shared) \/ ResultReceiverDropped
                   THEN /\ sim_pc' = "panicked"
                        /\ events' = <<>>
                        /\ UNCHANGED <<sim_shared, particle_positions, sim_rcv>>
                   ELSE \E e \in Entropy :
                        /\ particle_positions' =
                              spawn_positions(sim_shared, particle_positions, e)
                        /\ sim_rcv' = Append(sim_rcv,
                              SimResults(<<>>, particle_positions'))
                        /\ events' = Tail(events)
                        /\ UNCHANGED <<sim_shared, sim_pc>>
                [] event.type = "Reset" ->
                   IF sim_shared.class_count > MAX_CLASSES
                   THEN /\ sim_pc' = "panicked"
                        /\ events' = <<>>
                        /\ UNCHANGED <<sim_shared, particle_positions, sim_rcv>>
                   ELSE /\ sim_shared' = ApplyToShared(sim_shared, event)
                        /\ particle_positions' =
                              reset_positions(sim_shared, particle_positions)
                        /\ events' = Tail(events)
                        /\ UNCHANGED <<sim_pc, sim_rcv>>
                [] OTHER ->
                   /\ sim_shared' = ApplyToShared(sim_shared, event)
                   /\ events' = Tail(events)
                   /\ UNCHANGED <<sim_pc, particle_positions, sim_rcv>>
    /\ UNCHANGED <<particle_velocities, c1, c2, ui_rcv, move_start, move_start_velocities, updates, steps>>
    /\ UNCHANGED ui_vars

\* Line 123, Running: update enters move_particles.
SimMoveBegin ==
    /\ sim_pc = "events"
    /\ events = <<>>
    /\ ShouldStep(sim_shared)
    /\ sim_pc' = "move"
    /\ c1' = 0
    /\ c2' = 0
    /\ move_start' = particle_positions
    /\ move_start_velocities' = particle_velocities
    /\ updates' = [c \in Classes |-> 0]
    /\ steps' = steps + 1
    /\ UNCHANGED <<sim_shared, particle_positions, particle_velocities, events,
                   ui_rcv, sim_rcv, last_event>>
    /\ UNCHANGED ui_vars

\* Lines 142-147, not Running: update sleeps and returns true.
SimIdle ==
    /\ sim_pc = "events"
    /\ events = <<>>
    /\ ~ShouldStep(sim_shared)
    /\ sim_pc' = LoopAfterUpdate(TRUE)
    /\ UNCHANGED <<sim_shared, particle_positions, particle_velocities, events,
                   c1, c2, ui_rcv, sim_rcv, move_start, move_start_velocities, last_event, updates, steps>>
    /\ UNCHANGED ui_vars

\* The loops of move_particles have a pair of classes left.
PassLeft == sim_pc = "move" /\ c1 < sim_shared.class_count

\* Lines 151-188: one iteration of the loops over c1 and c2.
SimPass ==
    /\ PassLeft
    /\ IF PassPanics(sim_shared, c1, c2)
       THEN /\ sim_pc' = "panicked"
            /\ UNCHANGED <<particle_positions, particle_velocities, c1, c2,
                           updates>>
       ELSE /\ particle_positions' =
                  PassPositions(sim_shared, particle_positions,
                                particle_velocities, c1, c2)
            /\ particle_velocities' =
                  PassVelocities(sim_shared, particle_positions,
                                 particle_velocities, c1, c2)
            /\ c1' = NextPass(c1, c2, sim_shared.class_count)[1]
            /\ c2' = NextPass(c1, c2, sim_shared.class_count)[2]
            /\ updates' = [updates EXCEPT ![WriteBackClass(c1, c2)] = @ + 1]
            /\ sim_pc' = sim_pc
    /\ UNCHANGED <<sim_shared, events, ui_rcv, sim_rcv, move_start, move_start_velocities, last_event,
                   steps>>
    /\ UNCHANGED ui_vars

\* The time a step can be measured to take, in milliseconds.
ElapsedMillis == {17}

\* Lines 126-141: after move_particles, the result is sent with the elapsed
\* time; update sleeps and returns true.
SimPublish ==
    /\ sim_pc = "move"
    /\ c1 >= sim_shared.class_count
    /\ IF ResultReceiverDropped
       THEN sim_pc' = "panicked" /\ sim_rcv' = sim_rcv
       ELSE \E elapsed \in ElapsedMillis :
            /\ sim_rcv' = Append(sim_rcv,
                                 SimResults(<<elapsed>>, particle_positions))
            /\ sim_pc' = LoopAfterUpdate(TRUE)
    /\ UNCHANGED <<sim_shared, particle_positions, particle_velocities, events,
                   c1, c2, ui_rcv, move_start, move_start_velocities, last_event, updates, steps>>
    /\ UNCHANGED ui_vars

SimNext == SimCollect \/ SimEvent \/ SimMoveBegin \/ SimIdle \/ SimPass \/ SimPublish

(***************************************************************************)
(* Smarticles::export: the configuration as '@' + base64.                  *)
(***************************************************************************)
\* f32 as u16 and f32 as i8: saturating casts.
AsU16(x) == IF x < 0 THEN 0 ELSE IF x > 65535 THEN 65535 ELSE x
AsI8(x) == IF x < -128 THEN -128 ELSE IF x > 127 THEN 127 ELSE x
\* write_u16::<LE>, write_u8 of a usize (a wrapping cast), write_i8
WriteU16(v) == <<v % 256, (v \div 256) % 256>>
WriteU8(v) == <<v % 256>>
WriteI8(v) == <<(v + 256) % 256>>

RECURSIVE CountBytes(_, _)
CountBytes(counts, n) ==
    IF n <= 0 THEN <<>>
    ELSE CountBytes(counts, n - 1) \o WriteU16(counts[n - 1] % 65536)

\* elements_row_major_iter: entry k is (k div MAX_CLASSES, k mod MAX_CLASSES).
RECURSIVE ParamBytes(_, _)
ParamBytes(params, n) ==
    IF n <= 0 THEN <<>>
    ELSE LET p == params[(n - 1) \div MAX_CLASSES][(n - 1) % MAX_CLASSES]
         IN  ParamBytes(params, n - 1) \o WriteI8(AsI8(p.force))
                \o WriteI8(AsI8(p.radius))

ExportBytes(shared) ==
    WriteU16(AsU16(shared.world_radius))
        \o WriteU8(shared.class_count)
        \o CountBytes(shared.particle_counts, MAX_CLASSES)
        \o ParamBytes(shared.param_matrix, MAX_CLASSES * MAX_CLASSES)

\* The character code of the base64 digit d (standard alphabet).
Base64Char(d) ==
    IF d < 26 THEN 65 + d
    ELSE IF d < 52 THEN 97 + (d - 26)
    ELSE IF d < 62 THEN 48 + (d - 52)
    ELSE IF d = 62 THEN 43 ELSE 47

\* '=' and '@'
PadChar == 61
AtChar == 64

\* base64::encode
RECURSIVE Base64Encode(_)
Base64Encode(bytes) ==
    IF Len(bytes) = 0 THEN <<>>
    ELSE IF Len(bytes) = 1 THEN
        <<Base64Char(bytes[1] \div 4), Base64Char((bytes[1] % 4) * 16),
          PadChar, PadChar>>
    ELSE IF Len(bytes) = 2 THEN
        <<Base64Char(bytes[1] \div 4),
          Base64Char((bytes[1] % 4) * 16 + bytes[2] \div 16),
          Base64Char((bytes[2] % 16) * 4), PadChar>>
    ELSE
        <<Base64Char(bytes[1] \div 4),
          Base64Char((bytes[1] % 4) * 16 + bytes[2] \div 16),
          Base64Char((bytes[2] % 16) * 4 + bytes[3] \div 64),
          Base64Char(bytes[3] % 64)>>
            \o Base64Encode(SubSeq(bytes, 4, Len(bytes)))

\* format!("@{}", base64::encode(bytes))
export(shared) == <<AtChar>> \o Base64Encode(ExportBytes(shared))

(***************************************************************************)
(* base64::decode and Smarticles::import: a seed '@' + base64 read back.   *)
(***************************************************************************)
\* The base64 digit the character code c stands for, -1 when c is outside
\* the standard alphabet.
Base64Digit(c) ==
    IF 65 <= c /\ c <= 90 THEN c - 65
    ELSE IF 97 <= c /\ c <= 122 THEN c - 71
    ELSE IF 48 <= c /\ c <= 57 THEN c + 4
    ELSE IF c = 43 THEN 62
    ELSE IF c = 47 THEN 63
    ELSE -1

\* The number of '=' that end chars, two at most.
Padding(chars) ==
    IF Len(chars) >= 1 /\ chars[Len(chars)] = PadChar
    THEN IF Len(chars) >= 2 /\ chars[Len(chars) - 1] = PadChar THEN 2 ELSE 1
    ELSE 0

\* The bytes of a sequence of digits: four digits make three bytes, a last
\* group of two digits makes one byte and one of three digits two.
RECURSIVE DigitBytes(_)
DigitBytes(ds) ==
    IF Len(ds) < 2 THEN <<>>
    ELSE IF Len(ds) = 2 THEN <<ds[1] * 4 + ds[2] \div 16>>
    ELSE IF Len(ds) = 3 THEN
        <<ds[1] * 4 + ds[2] \div 16, (ds[2] % 16) * 16 + ds[3] \div 4>>
    ELSE
        <<ds[1] * 4 + ds[2] \div 16, (ds[2] % 16) * 16 + ds[3] \div 4,
          (ds[3] % 4) * 64 + ds[4]>>
            \o DigitBytes(SubSeq(ds, 5, Len(ds)))

\* The bits of the last digit of a short last group that belong to no byte.
TrailingBits(ds) ==
    IF Len(ds) % 4 = 2 THEN ds[Len(ds)] % 16
    ELSE IF Len(ds) % 4 = 3 THEN ds[Len(ds)] % 4
    ELSE 0

\* base64::decode: Ok(bytes) when every character before the padding is a
\* digit, the padding fills the last group and the trailing bits are zero;
\* Err otherwise.  (Whether a missing padding is accepted differs between
\* versions of the crate: the seeds of a run are padded or hold a character
\* outside the alphabet.)
Base64Decode(chars) ==
    LET pad == Padding(chars)
        body == SubSeq(chars, 1, Len(chars) - pad)
        ds == [k \in 1 .. Len(body) |-> Base64Digit(body[k])]
        ok == /\ \A k \in 1 .. Len(body) : ds[k] >= 0
              /\ (Len(body) + pad) % 4 = 0
              /\ TrailingBits(ds) = 0
    IN  [ok |-> ok, bytes |-> IF ok THEN DigitBytes(ds) ELSE <<>>]

\* read_u16::<LE> on a slice: the next two bytes, low byte first.  With
\* fewer than two bytes left it is Err, and read_exact leaves the slice as
\* it is or empties it, depending on the version of the standard library
\* (drains).
ReadU16(bytes, drains) ==
    IF Len(bytes) >= 2
    THEN [ok |-> TRUE, value |-> bytes[1] + 256 * bytes[2],
          rest |-> SubSeq(bytes, 3, Len(bytes))]
    ELSE [ok |-> FALSE, value |-> 0,
          rest |-> IF drains THEN <<>> ELSE bytes]

\* read_u8
ReadU8(bytes) ==
    IF Len(bytes) >= 1
    THEN [ok |-> TRUE, value |-> bytes[1], rest |-> Tail(bytes)]
    ELSE [ok |-> FALSE, value |-> 0, rest |-> <<>>]

\* read_u8 in place of read_i8: the byte is not taken as two's complement.
ReadI8Unsigned(bytes) == ReadU8(bytes)

\* read_i8
ReadI8(bytes) ==
    IF Len(bytes) >= 1
    THEN [ok |-> TRUE,
          value |-> IF bytes[1] >= 128 THEN bytes[1] - 256 ELSE bytes[1],
          rest |-> Tail(bytes)]
    ELSE [ok |-> FALSE, value |-> 0, rest |-> <<>>]

\* Result::unwrap_or
UnwrapOr(result, default) == IF result.ok THEN result.value ELSE default

\* Lines 238-244: the loop over particle_counts, n counts left to read.
RECURSIVE ReadCounts(_, _, _)
ReadCounts(bytes, n, drains) ==
    IF n <= 0 THEN [values |-> <<>>, rest |-> bytes]
    ELSE LET count == ReadU16(bytes, drains)
             more == ReadCounts(count.rest, n - 1, drains)
         IN  [values |-> <<UnwrapOr(count, 0)>> \o more.values,
              rest |-> more.rest]

\* Lines 246-251: the loops over the parameter matrix, n entries left.
RECURSIVE ReadParams(_, _)
ReadParams(bytes, n) ==
    IF n <= 0 THEN <<>>
    ELSE LET force == ReadI8(bytes)
             radius == ReadI8(force.rest)
         IN  <<Param(UnwrapOr(force, 0), UnwrapOr(radius, 0))>>
                \o ReadParams(radius.rest, n - 1)

\* Smarticles::import
import(shared, bytes, drains) ==
    LET world_radius == ReadU16(bytes, drains)
        class_count == ReadU8(world_radius.rest)
        counts == ReadCounts(class_count.rest, MAX_CLASSES, drains)
        params == ReadParams(counts.rest, MAX_CLASSES * MAX_CLASSES)
    IN  [shared EXCEPT
            !.world_radius = UnwrapOr(world_radius, AsU16(DEFAULT_WORLD_RADIUS)),
            !.class_count = UnwrapOr(class_count, MAX_CLASSES % 256),
            !.particle_counts = [c \in Classes |-> counts.values[c + 1]],
            !.param_matrix = [i \in Classes |-> [j \in Classes |->
                                 params[i * MAX_CLASSES + j + 1]]]]

(***************************************************************************)
(* Smarticles::apply_seed.  A generator seeded with h yields a sequence of *)
(* samples of the open interval (0, 1), in thousandths: a function of h    *)
(* and of the sample's index.                                              *)
(***************************************************************************)
\* DefaultHasher over the seed's characters: a number the text determines.
RECURSIVE Hash(_)
Hash(text) ==
    IF text = <<>> THEN 7
    ELSE (Hash(SubSeq(text, 1, Len(text) - 1)) * 31 + text[Len(text)]) % 65521

\* rand.sample(Open01): the k-th sample of the generator seeded with h.
Open01(h, k) == ((h * 131 + k * 379 + 17) % 999) + 1

\* The ranges of the random particle counts (200 and 1000 for a capacity of
\* 1200).
RANDOM_MIN_PARTICLE_COUNT == 1
RANDOM_MAX_PARTICLE_COUNT == 2

\* The closure rand: min + (max - min) * u, in thousandths.
RandMilli(min, max, u) == min * Thousand + (max - min) * u

\* f32::powf(1. / POW_F) and f32::powf(1. / RAD_F) at the integers, rounded:
\* entry x + 1 of PowFTable is x^(1/1.25) for x in 0..100, entry x - 29 of
\* RadFTable is x^(1/1.1) for x in 30..100.
PowFTable ==
    <<0, 1, 2, 2, 3, 4, 4, 5, 5, 6, 6, 7, 7, 8, 8, 9, 9, 10, 10, 11, 11, 11,
      12, 12, 13, 13, 14, 14, 14, 15, 15, 16, 16, 16, 17, 17, 18, 18, 18, 19,
      19, 20, 20, 20, 21, 21, 21, 22, 22, 22, 23, 23, 24, 24, 24, 25, 25, 25,
      26, 26, 26, 27, 27, 28, 28, 28, 29, 29, 29, 30, 30, 30, 31, 31, 31, 32,
      32, 32, 33, 33, 33, 34, 34, 34, 35, 35, 35, 36, 36, 36, 37, 37, 37, 38,
      38, 38, 39, 39, 39, 39, 40>>
RadFTable ==
    <<22, 23, 23, 24, 25, 25, 26, 27, 27, 28, 29, 29, 30, 31, 31, 32, 32, 33,
      34, 34, 35, 36, 36, 37, 38, 38, 39, 39, 40, 41, 41, 42, 43, 43, 44, 44,
      45, 46, 46, 47, 48, 48, 49, 49, 50, 51, 51, 52, 52, 53, 54, 54, 55, 56,
      56, 57, 57, 58, 59, 59, 60, 60, 61, 62, 62, 63, 63, 64, 65, 65, 66>>

\* Line 173-176: rand(RANDOM_MIN, RANDOM_MAX) as usize, a truncation.
RandomCount(u) ==
    RandMilli(RANDOM_MIN_PARTICLE_COUNT, RANDOM_MAX_PARTICLE_COUNT, u)
        \div Thousand

\* Lines 178-179: pow.signum() * pow.abs().powf(1. / POW_F)
RandomForce(u) ==
    LET pow == RDiv(RandMilli(MIN_FORCE, MAX_FORCE, u), Thousand)
    IN  IF pow < 0 THEN -PowFTable[-pow + 1] ELSE PowFTable[pow + 1]

\* Lines 180-181: rand(MIN_RADIUS, MAX_RADIUS).powf(1. / RAD_F)
RandomRadius(u) ==
    RadFTable[RDiv(RandMilli(MIN_RADIUS, MAX_RADIUS, u), Thousand)
                 - MIN_RADIUS + 1]

\* The index of the sample that class i draws first when n classes are
\* shown: every class before it has drawn one count and n pairs.
FirstDraw(n, i) == i * (1 + 2 * n)

\* Lines 172-183: the loops over the classes shown, fed by the generator
\* seeded with h.  Entries of the classes not shown are left as they are.
Derived(shared, h) ==
    LET n == shared.class_count
    IN  [shared EXCEPT
            !.particle_counts = [c \in Classes |->
                IF c < n THEN RandomCount(Open01(h, FirstDraw(n, c)))
                ELSE @[c]],
            !.param_matrix = [i \in Classes |-> [j \in Classes |->
                IF i < n /\ j < n
                THEN Param(RandomForce(Open01(h, FirstDraw(n, i) + 1 + 2 * j)),
                           RandomRadius(Open01(h, FirstDraw(n, i) + 2 + 2 * j)))
                ELSE @[i][j]]]]

\* Lines 185-187: send_params, send_class_count, send_particle_counts.
SendAll(shared) ==
    <<ParamsUpdate(shared.param_matrix), ClassCountUpdate(shared.class_count),
      ParticleCountsUpdate(shared.particle_counts)>>

\* The outcome of apply_seed: the configuration it leaves, the events it
\* sends, and whether it panics (then it has sent nothing).
Outcome(shared, sends, panics) ==
    [shared |-> shared, sends |-> sends, panics |-> panics]

\* Lines 163-187: the seed taken as text, the generator seeded with h.  The
\* loops index particle_counts and param_matrix by class.
ApplyText(shared, h) ==
    IF shared.class_count > MAX_CLASSES
    THEN Outcome(shared, <<>>, TRUE)
    ELSE Outcome(Derived(shared, h), SendAll(Derived(shared, h)), FALSE)

\* Line 157 without line 158: every '@' seed is imported, decodable or not.
ImportsAnyAt(text) == text /= <<>> /\ text[1] = AtChar

\* Whether apply_seed takes a seed for an exported configuration: line 157
\* and the Ok of line 158.
Imports(text) ==
    /\ text /= <<>>
    /\ text[1] = AtChar
    /\ Base64Decode(Tail(text)).ok

\* What the generators from_entropy() can give are seeded with.
EntropySeeds == {3}

\* Smarticles::apply_seed on the seed text: an empty seed draws from
\* entropy (h), an '@' seed that decodes is imported and nothing is sent,
\* any other seed is hashed.
apply_seed(shared, text, h, drains) ==
    IF text = <<>> THEN ApplyText(shared, h)
    ELSE IF Imports(text)
    THEN Outcome(import(shared, Base64Decode(Tail(text)).bytes, drains),
                 <<>>, FALSE)
    ELSE ApplyText(shared, Hash(text))

(***************************************************************************)
(* The presentation thread: Smarticles::update, once per frame.  A handler *)
(* changes Smarticles, which only this thread reads, and sends its events  *)
(* one after the other; the simulation thread may run between two sends.   *)
(* A handler's action runs it up to and including its first send; UiSend   *)
(* makes each of the sends that follow.                                    *)
(***************************************************************************)
\* Whether the receiving end of the event channel is gone: the simulation
\* thread has ended, and Simulation with it.
EventReceiverDropped == sim_pc \in {"exited", "panicked"}

\* The handler's first send, ui_send.send(event).unwrap(), and what is left
\* to send: unwrap panics when the receiver is gone.
SendFirst(sends, pc) ==
    IF EventReceiverDropped
    THEN /\ ui_pc' = "panicked"
         /\ ui_sending' = <<>>
         /\ ui_rcv' = ui_rcv
         /\ expected' = expected
    ELSE /\ ui_rcv' = Append(ui_rcv, Head(sends))
         /\ expected' = ApplyToShared(expected, Head(sends))
         /\ ui_sending' = Tail(sends)
         /\ ui_pc' = pc
\* A widget can fire: the window is open, the previous handler has returned
\* and the run has handlers left.
UiReady ==
    /\ ui_pc = "frame"
    /\ ui_sending = <<>>
    /\ ui_ops < MaxUiOps

\* What every handler leaves alone.
UiQuiet ==
    UNCHANGED <<ui_positions, calculation_time, sim_rcv, taken, history,
                selected_history_entry, codec_in, kernel, selected_particle>>

\* try_iter().next() in place of last(): the first result queued.
FirstResult(queue) == IF queue = <<>> THEN <<>> ELSE <<queue[1]>>

\* try_iter().last(): the last result queued, None when the queue is empty.
LastResult(queue) == IF queue = <<>> THEN <<>> ELSE <<queue[Len(queue)]>>

\* try_iter() does not wait: the frame goes on whatever the queue holds.
CanReceive(queue) == TRUE

\* Lines 283-288: the frame empties the result queue and shows the last
\* result, if there is one.
UiReceive ==
    /\ ui_pc = "frame"
    /\ ui_sending = <<>>
    /\ CanReceive(sim_rcv)
    /\ LET last == LastResult(sim_rcv)
       IN  IF last = <<>>
           THEN UNCHANGED <<ui_positions, calculation_time>>
           ELSE /\ ui_positions' = last[1].positions
                /\ calculation_time' =
                      IF last[1].elapsed /= <<>> THEN last[1].elapsed[1]
                                                 ELSE calculation_time
    /\ sim_rcv' = <<>>
    /\ taken' = IF sim_rcv = <<>> THEN taken ELSE Len(sim_rcv)
    /\ UNCHANGED <<ui_shared, seed, ui_pc, ui_sending, history,
                   selected_history_entry, last_ui, expected, ui_ops, codec_in,
                   kernel, selected_particle,
                   ui_rcv>>
    /\ UNCHANGED sim_vars

\* Lines 509-584 and 648-658: after its handlers the frame loops over the
\* classes shown (classes[i], the sliders of class i) and draws their
\* particles (particle_positions[(c, p)]); an index past the end panics.
FrameEnd(shared, pc) == IF LoopsPanic(shared) THEN "panicked" ELSE pc

\* The next send of the running handler; after the last one the frame goes
\* on to its end.
UiSend ==
    /\ ui_pc = "frame"
    /\ ui_sending /= <<>>
    /\ SendFirst(ui_sending,
                 IF Len(ui_sending) = 1 THEN FrameEnd(ui_shared, ui_pc)
                                        ELSE ui_pc)
    /\ UNCHANGED <<ui_shared, ui_positions, calculation_time, seed, history,
                   selected_history_entry, last_ui, taken, ui_ops, codec_in,
                   kernel, selected_particle,
                   sim_rcv>>
    /\ UNCHANGED sim_vars

\* The "respawn" button: spawn().
UiRespawn ==
    /\ UiReady
    /\ SendFirst(<<Spawn>>, ui_pc)
    /\ last_ui' = "respawn"
    /\ ui_ops' = ui_ops + 1
    /\ UNCHANGED <<ui_shared, seed>>
    /\ UiQuiet
    /\ UNCHANGED sim_vars

\* The "play" button, shown unless Running: play().
UiPlay ==
    /\ UiReady
    /\ ui_shared.simulation_state /= "Running"
    /\ ui_shared' = [ui_shared EXCEPT !.simulation_state = "Running"]
    /\ SendFirst(<<Play>>, ui_pc)
    /\ last_ui' = "play"
    /\ ui_ops' = ui_ops + 1
    /\ UNCHANGED seed
    /\ UiQuiet
    /\ UNCHANGED sim_vars

\* The "pause" button, shown when Running: pause().
UiPause ==
    /\ UiReady
    /\ ui_shared.simulation_state = "Running"
    /\ ui_shared' = [ui_shared EXCEPT !.simulation_state = "Paused"]
    /\ SendFirst(<<Pause>>, ui_pc)
    /\ last_ui' = "pause"
    /\ ui_ops' = ui_ops + 1
    /\ UNCHANGED seed
    /\ UiQuiet
    /\ UNCHANGED sim_vars

\* The "reset" button: reset() sets the state and sends Reset.
UiReset ==
    /\ UiReady
    /\ ui_shared' = [ui_shared EXCEPT !.simulation_state = "Stopped"]
    /\ SendFirst(<<Reset>>, ui_pc)
    /\ last_ui' = "reset"
    /\ ui_ops' = ui_ops + 1
    /\ UNCHANGED seed
    /\ UiQuiet
    /\ UNCHANGED sim_vars

\* The "quit" button: Quit is sent, then the thread is joined.
UiQuit ==
    /\ UiReady
    /\ SendFirst(<<Quit>>, "joining")
    /\ last_ui' = "quit"
    /\ ui_ops' = ui_ops + 1
    /\ UNCHANGED <<ui_shared, seed>>
    /\ UiQuiet
    /\ UNCHANGED sim_vars

\* handle.join().unwrap() returns once the simulation thread has ended, and
\* panics if that thread panicked; then frame.close().
UiJoin ==
    /\ ui_pc = "joining"
    /\ sim_pc \in {"exited", "panicked"}
    /\ ui_pc' = IF sim_pc = "exited" THEN "closed" ELSE "panicked"
    /\ UNCHANGED <<ui_shared, seed, ui_sending, last_ui, expected, ui_ops,
                   ui_rcv>>
    /\ UiQuiet
    /\ UNCHANGED sim_vars

\* The values a run moves the sliders to: a world radius, particle
\* counts, and for the parameter sliders <<i, j, value>>, the slider of the
\* pair (i, j) moved to value.
WorldRadiusInputs == {MIN_WORLD_RADIUS}
ParticleCountInputs == {MIN_PARTICLE_COUNT, MAX_PARTICLE_COUNT}
ForceInputs == {<<0, MAX_CLASSES - 1, MAX_FORCE>>, <<MAX_CLASSES - 1, 0, MIN_FORCE>>}
RadiusInputs == {<<0, 0, MIN_RADIUS>>}

\* Lines 369-385: the world radius slider (changed) or its reset button.
UiWorldRadius ==
    /\ UiReady
    /\ \E w \in WorldRadiusInputs \cup {DEFAULT_WORLD_RADIUS} :
          /\ w \in WorldRadiusInputs => w /= ui_shared.world_radius
          /\ ui_shared' = [ui_shared EXCEPT !.world_radius = w]
          /\ seed' = export(ui_shared')
          /\ SendFirst(<<Spawn, WorldRadiusUpdate(w)>>, ui_pc)
    /\ last_ui' = "world_radius"
    /\ ui_ops' = ui_ops + 1
    /\ UiQuiet
    /\ UNCHANGED sim_vars

\* Lines 387-403: the class count slider (changed) or its reset button.
UiClassCount ==
    /\ UiReady
    /\ \E n \in MIN_CLASSES .. MAX_CLASSES :
          /\ n /= MAX_CLASSES => n /= ui_shared.class_count
          /\ ui_shared' = [ui_shared EXCEPT !.class_count = n]
          /\ seed' = export(ui_shared')
          /\ SendFirst(<<Spawn, ClassCountUpdate(n)>>, ui_pc)
    /\ last_ui' = "class_count"
    /\ ui_ops' = ui_ops + 1
    /\ UiQuiet
    /\ UNCHANGED sim_vars

\* Lines 515-529: the particle count slider of a class shown.
UiParticleCount ==
    /\ UiReady
    /\ \E i \in Classes, n \in ParticleCountInputs :
          /\ i < ui_shared.class_count
          /\ n /= ui_shared.particle_counts[i]
          /\ ui_shared' = [ui_shared EXCEPT !.particle_counts[i] = n]
          /\ seed' = export(ui_shared')
          /\ SendFirst(<<Spawn, ParticleCountsUpdate(ui_shared'.particle_counts)>>, ui_pc)
    /\ last_ui' = "particle_count"
    /\ ui_ops' = ui_ops + 1
    /\ UiQuiet
    /\ UNCHANGED sim_vars

\* Lines 542-553: a force slider of a pair of classes shown.
UiForce ==
    /\ UiReady
    /\ \E in \in ForceInputs :
          /\ in[1] < ui_shared.class_count
          /\ in[2] < ui_shared.class_count
          /\ in[3] /= ui_shared.param_matrix[in[1]][in[2]].force
          /\ ui_shared' = [ui_shared EXCEPT !.param_matrix[in[1]][in[2]].force = in[3]]
          /\ seed' = export(ui_shared')
          /\ SendFirst(<<ParamsUpdate(ui_shared'.param_matrix)>>, ui_pc)
    /\ last_ui' = "force"
    /\ ui_ops' = ui_ops + 1
    /\ UiQuiet
    /\ UNCHANGED sim_vars

\* Lines 566-577: a radius slider of a pair of classes shown.
UiRadius ==
    /\ UiReady
    /\ \E in \in RadiusInputs :
          /\ in[1] < ui_shared.class_count
          /\ in[2] < ui_shared.class_count
          /\ in[3] /= ui_shared.param_matrix[in[1]][in[2]].radius
          /\ ui_shared' = [ui_shared EXCEPT !.param_matrix[in[1]][in[2]].radius = in[3]]
          /\ seed' = export(ui_shared')
          /\ SendFirst(<<ParamsUpdate(ui_shared'.param_matrix)>>, ui_pc)
    /\ last_ui' = "radius"
    /\ ui_ops' = ui_ops + 1
    /\ UiQuiet
    /\ UNCHANGED sim_vars

(***************************************************************************)
(* The seed handlers: the "apply" button next to the seed field, the       *)
(* "randomize" button and the seed history.                                *)
(***************************************************************************)
MAX_HISTORY_LEN == 10

\* update_history: the seed is pushed, the oldest entry dropped when the
\* history is longer than MAX_HISTORY_LEN.
update_history(entries, text) ==
    LET pushed == Append(entries, text)
    IN  IF Len(pushed) > MAX_HISTORY_LEN THEN Tail(pushed) ELSE pushed

\* A configuration exported with a particle count above the capacity, for a
\* class that is not shown.
OversizedConfiguration ==
    [SharedStateNew EXCEPT
        !.class_count = MIN_CLASSES,
        !.particle_counts = [c \in Classes |->
            IF c = MAX_CLASSES - 1 THEN MAX_PARTICLE_COUNT + 1 ELSE 0]]

\* The texts a run types into the seed field: "ab", "@!" (not base64) and
\* the seed of OversizedConfiguration.
SeedInputs == {<<97, 98>>, <<AtChar, 33>>, export(OversizedConfiguration)}

\* apply_seed() followed by spawn(), on the seed text: the seed handlers
\* from apply_seed on.  apply_seed's sends, then Spawn, then the rest of
\* the frame.
ApplyAndSpawn(text) ==
    \E h \in EntropySeeds, drains \in BOOLEAN :
        LET outcome == apply_seed(ui_shared, text, h, drains)
            sends == outcome.sends \o <<Spawn>>
        IN  /\ ui_shared' = outcome.shared
            /\ IF outcome.panics
               THEN /\ ui_pc' = "panicked"
                    /\ ui_sending' = <<>>
                    /\ UNCHANGED <<ui_rcv, expected>>
               ELSE SendFirst(sends,
                              IF Len(sends) = 1
                              THEN FrameEnd(outcome.shared, ui_pc) ELSE ui_pc)

\* What the seed handlers leave alone.
SeedQuiet ==
    UNCHANGED <<ui_positions, calculation_time, sim_rcv, taken, codec_in,
                kernel, selected_particle>>

\* Lines 358-367: the "apply" button, on the text the seed field holds: the
\* seed as the last handler left it, or a text typed over it.
UiApplySeed ==
    /\ UiReady
    /\ \E text \in SeedInputs \cup {seed} :
          /\ seed' = text
          /\ history' = update_history(history, text)
          /\ selected_history_entry' = Len(history') - 1
          /\ ApplyAndSpawn(text)
    /\ last_ui' = "apply"
    /\ ui_ops' = ui_ops + 1
    /\ SeedQuiet
    /\ UNCHANGED sim_vars

\* The words of words.txt (lowercase, eight letters at most): "a".
Words == {<<97>>}

\* Lines 318-332: the "randomize" button, format!("{}_{}_{}", w1, w2, w3).
UiRandomize ==
    /\ UiReady
    /\ \E w1 \in Words, w2 \in Words, w3 \in Words :
          LET text == w1 \o <<95>> \o w2 \o <<95>> \o w3
          IN  /\ seed' = text
              /\ history' = update_history(history, text)
              /\ selected_history_entry' = Len(history') - 1
              /\ ApplyAndSpawn(text)
    /\ last_ui' = "randomize"
    /\ ui_ops' = ui_ops + 1
    /\ SeedQuiet
    /\ UNCHANGED sim_vars

\* Lines 417-434: the seed history, shown when it has more than one entry;
\* choosing another entry applies it.
UiHistory ==
    /\ UiReady
    /\ Len(history) > 1
    /\ \E i \in 0 .. (Len(history) - 1) :
          /\ i /= selected_history_entry
          /\ selected_history_entry' = i
          /\ seed' = history[i + 1]
          /\ ApplyAndSpawn(history[i + 1])
    /\ last_ui' = "history"
    /\ ui_ops' = ui_ops + 1
    /\ UNCHANGED history
    /\ SeedQuiet
    /\ UNCHANGED sim_vars

UiNext ==
    \/ UiReceive \/ UiSend \/ UiRespawn \/ UiPlay \/ UiPause \/ UiReset
    \/ UiQuit \/ UiJoin \/ UiWorldRadius \/ UiClassCount \/ UiParticleCount
    \/ UiForce \/ UiRadius

Next == SimNext \/ UiNext
Spec == Init /\ [][Next]_vars

(***************************************************************************)
(* The two threads with the seed handlers.                                 *)
(***************************************************************************)
\* The handlers a run of the seed handlers has.
SeedUiOps == 3

\* A run starts when the two threads have been constructed, or a frame
\* later, when "apply" has been clicked on the seed of
\* OversizedConfiguration: the seed is imported and Spawn is sent.
SeedInit ==
    /\ sim_shared = SharedStateNew
    /\ particle_positions = ZeroTable
    /\ particle_velocities = ZeroTable
    /\ sim_pc = "update"
    /\ events = <<>>
    /\ c1 = 0
    /\ c2 = 0
    /\ sim_rcv = <<>>
    /\ ui_positions = ZeroTable
    /\ calculation_time = 0
    /\ ui_pc = "frame"
    /\ ui_sending = <<>>
    /\ selected_history_entry = 0
    /\ codec_in = <<>>
    /\ move_start = ZeroTable
    /\ move_start_velocities = ZeroTable
    /\ last_event = "none"
    /\ expected = SharedStateNew
    /\ taken = 0
    /\ ui_ops = MaxUiOps - SeedUiOps
    /\ kernel = <<>>
    /\ selected_particle = <<0, 0>>
    /\ updates = [c \in Classes |-> 0]
    /\ steps = 0
    /\ \/ /\ ui_shared = SharedStateNew
          /\ seed = <<>>
          /\ history = <<>>
          /\ ui_rcv = <<>>
          /\ last_ui = "none"
       \/ /\ ui_shared = apply_seed(SharedStateNew,
                                    export(OversizedConfiguration), 0, FALSE).shared
          /\ seed = export(OversizedConfiguration)
          /\ history = <<seed>>
          /\ ui_rcv = <<Spawn>>
          /\ last_ui = "apply"

SeedNext ==
    \/ SimNext
    \/ UiReceive \/ UiSend \/ UiPlay \/ UiReset \/ UiClassCount
    \/ UiParticleCount \/ UiApplySeed \/ UiRandomize \/ UiHistory
SeedSpec == SeedInit /\ [][SeedNext]_vars

(***************************************************************************)
(* export and import alone.  A run starts from a configuration to export   *)
(* or from a seed to import; the f32 fields of the configuration to export *)
(* are in thousandths, so that they need not be whole numbers.             *)
(***************************************************************************)
\* The first half of a cast "f32 as u16" or "f32 as i8": the fraction is
\* dropped (AsU16 and AsI8 are the second half).  m is in thousandths.
Truncate(m) == IF m >= 0 THEN m \div Thousand ELSE -((-m) \div Thousand)

\* A configuration in thousandths as the casts of export see it.
Truncated(config) ==
    [config EXCEPT
        !.world_radius = Truncate(@),
        !.param_matrix = [i \in Classes |-> [j \in Classes |->
            Param(Truncate(config.param_matrix[i][j].force),
                  Truncate(config.param_matrix[i][j].radius))]]]

\* The configurations a run exports: world radius w, n classes shown, k
\* particles in class 0 and MAX_PARTICLE_COUNT - k in the others, force f
\* on and above the diagonal and -f below it, radius r.  All are within the
\* ranges of the sliders.
CodecConfiguration(w, n, k, f, r) ==
    [simulation_state |-> "Stopped",
     world_radius |-> w,
     class_count |-> n,
     particle_counts |-> [c \in Classes |->
                            IF c = 0 THEN k ELSE MAX_PARTICLE_COUNT - k],
     param_matrix |-> [i \in Classes |-> [j \in Classes |->
                          Param(IF i <= j THEN f ELSE -f, r)]]]
CodecConfigs ==
    {CodecConfiguration(w, n, k, f, r) :
        w \in {MIN_WORLD_RADIUS * Thousand, DEFAULT_WORLD_RADIUS * Thousand + 500,
               MAX_WORLD_RADIUS * Thousand},
        n \in MIN_CLASSES .. MAX_CLASSES,
        k \in {MIN_PARTICLE_COUNT, MAX_PARTICLE_COUNT},
        f \in {MIN_FORCE * Thousand, -500, 0, MAX_FORCE * Thousand - 100},
        r \in {MIN_RADIUS * Thousand, DEFAULT_RADIUS * Thousand + 400,
               MAX_RADIUS * Thousand}}

\* The bytes of a configuration none of whose fields has its default.
FullBlob ==
    ExportBytes(Truncated(CodecConfiguration(MIN_WORLD_RADIUS * Thousand,
        MIN_CLASSES, MAX_PARTICLE_COUNT, MIN_FORCE * Thousand,
        MIN_RADIUS * Thousand)))

\* The seeds a run imports: '@' and the base64 of each prefix of FullBlob.
CodecSeeds ==
    {<<AtChar>> \o Base64Encode(SubSeq(FullBlob, 1, n)) : n \in 0 .. Len(FullBlob)}

CodecInit ==
    /\ sim_shared = SharedStateNew
    /\ particle_positions = ZeroTable
    /\ particle_velocities = ZeroTable
    /\ sim_pc = "update"
    /\ events = <<>>
    /\ c1 = 0
    /\ c2 = 0
    /\ ui_rcv = <<>>
    /\ sim_rcv = <<>>
    /\ ui_shared = SharedStateNew
    /\ ui_positions = ZeroTable
    /\ calculation_time = 0
    /\ ui_pc = "frame"
    /\ ui_sending = <<>>
    /\ history = <<>>
    /\ selected_history_entry = 0
    /\ move_start = ZeroTable
    /\ move_start_velocities = ZeroTable
    /\ last_event = "none"
    /\ last_ui = "none"
    /\ expected = SharedStateNew
    /\ taken = 0
    /\ ui_ops = 0
    /\ kernel = <<>>
    /\ selected_particle = <<0, 0>>
    /\ updates = [c \in Classes |-> 0]
    /\ steps = 0
    /\ \/ codec_in \in CodecConfigs /\ seed = <<>>
       \/ codec_in = <<>> /\ seed \in CodecSeeds

\* What export and import alone leave as it is.
CodecQuiet ==
    UNCHANGED <<sim_vars, ui_rcv, sim_rcv, ui_positions, calculation_time,
                ui_pc, ui_sending, history, selected_history_entry, expected,
                taken, ui_ops, codec_in, kernel, selected_particle>>

\* self.seed = self.export(), on the configuration the run starts from.
CodecExport ==
    /\ last_ui = "none"
    /\ codec_in /= <<>>
    /\ seed' = export(Truncated(codec_in))
    /\ last_ui' = "export"
    /\ UNCHANGED ui_shared
    /\ CodecQuiet

\* apply_seed on a seed that imports: the seed just exported, or the seed
\* the run starts from.
CodecImport ==
    /\ \/ last_ui = "export"
       \/ last_ui = "none" /\ codec_in = <<>>
    /\ Imports(seed)
    /\ \E drains \in BOOLEAN :
          ui_shared' = apply_seed(ui_shared, seed, 0, drains).shared
    /\ last_ui' = "import"
    /\ UNCHANGED seed
    /\ CodecQuiet

CodecNext == CodecExport \/ CodecImport
CodecSpec == CodecInit /\ [][CodecNext]_vars

(***************************************************************************)
(* get_partial_velocity alone.  A run starts from the arguments of one     *)
(* call and makes the call.                                                *)
(***************************************************************************)
\* The lengths of the distances a run calls the kernel with, fixed-point:
\* zero, the least length, lengths below, at and above RAMP_START_RADIUS,
\* the end of the ramp and the action radii.
KernelLengths ==
    {0, 1, Fixed(5), Fixed(15), Fixed(RAMP_START_RADIUS) - 1,
     Fixed(RAMP_START_RADIUS), Fixed(RAMP_START_RADIUS) + 1, Fixed(35),
     Fixed(RAMP_START_RADIUS + RAMP_LENGTH), Fixed(41), Fixed(60),
     Fixed(DEFAULT_RADIUS) - 1, Fixed(DEFAULT_RADIUS), Fixed(MAX_RADIUS),
     Fixed(MAX_RADIUS) + 1, Fixed(120)}

\* The distances other_pos - pos: along the x axis, against the y axis and
\* along (-3, 4).
KernelDistances ==
    {<<x, 0>> : x \in KernelLengths}
        \cup {<<0, -x>> : x \in KernelLengths}
        \cup {<<-3 * (x \div 5), 4 * (x \div 5)>> :
                 x \in {l \in KernelLengths : l % 5 = 0}}

\* The action radii: those of the slider (MIN_RADIUS to MAX_RADIUS), and
\* below them a radius a text seed derives (22) and the radius an import
\* leaves where its blob ends (0).
KernelRadii ==
    {0, 22, MIN_RADIUS, 35, RAMP_START_RADIUS + RAMP_LENGTH, DEFAULT_RADIUS,
     MAX_RADIUS}

\* The forces move_particles calls the kernel with, -param.force *
\* FORCE_FACTOR, in thousandths.
KernelForces ==
    {-p * FORCE_FACTOR : p \in {MIN_FORCE, -1, DEFAULT_FORCE, 1, MAX_FORCE}}

\* The arguments of a call that has not been made.
KernelCall(distance, action_radius, force) ==
    [distance |-> distance, action_radius |-> action_radius, force |-> force,
     returned |-> FALSE, result |-> ZERO, ramp |-> 0]

KernelInit ==
    /\ sim_shared = SharedStateNew
    /\ particle_positions = ZeroTable
    /\ particle_velocities = ZeroTable
    /\ sim_pc = "update"
    /\ events = <<>>
    /\ c1 = 0
    /\ c2 = 0
    /\ ui_rcv = <<>>
    /\ sim_rcv = <<>>
    /\ ui_shared = SharedStateNew
    /\ ui_positions = ZeroTable
    /\ calculation_time = 0
    /\ seed = <<>>
    /\ ui_pc = "frame"
    /\ ui_sending = <<>>
    /\ history = <<>>
    /\ selected_history_entry = 0
    /\ selected_particle = <<0, 0>>
    /\ codec_in = <<>>
    /\ move_start = ZeroTable
    /\ move_start_velocities = ZeroTable
    /\ last_event = "none"
    /\ last_ui = "none"
    /\ expected = SharedStateNew
    /\ taken = 0
    /\ ui_ops = 0
    /\ updates = [c \in Classes |-> 0]
    /\ steps = 0
    /\ kernel \in {KernelCall(d, radius, force) :
                      d \in KernelDistances, radius \in KernelRadii,
                      force \in KernelForces}

\* The call: get_partial_velocity(distance, action_radius, force), and the
\* factor ramp_then_const(r, RAMP_START_RADIUS, RAMP_LENGTH) of its first
\* arm at the length of the distance.
KernelApply ==
    /\ kernel /= <<>>
    /\ ~kernel.returned
    /\ kernel' = [kernel EXCEPT
          !.returned = TRUE,
          !.result = get_partial_velocity(kernel.distance,
                                          kernel.action_radius, kernel.force),
          !.ramp = ramp_then_const(Length(kernel.distance), RAMP_START_RADIUS,
                                   RAMP_LENGTH)]
    /\ UNCHANGED <<sim_vars, ui_rcv, sim_rcv, ui_shared, ui_positions,
                   calculation_time, seed, ui_pc, ui_sending, history,
                   selected_history_entry, last_ui, expected, taken, ui_ops,
                   codec_in, selected_particle>>

KernelNext == KernelApply
KernelSpec == KernelInit /\ [][KernelNext]_vars

(***************************************************************************)
(* One step alone.  A run starts in the middle of a simulation: the engine *)
(* is Running, has processed its events and is about to call               *)
(* move_particles on the tables earlier steps and spawns have left; the    *)
(* presentation thread does nothing.                                       *)
(***************************************************************************)
\* Where the two particles of a run are: 5 apart as spawn draws them, 36
\* apart (on the ramp), 41 apart (on the plateau), 120 apart (out of every
\* action radius), one of them beyond the least world radius, and both
\* beyond it, 45 apart.
StepPairs ==
    { << <<-Fixed(20), 0>>, <<-Fixed(16), Fixed(3)>> >>,
      << <<Fixed(20), 0>>, <<-Fixed(16), Fixed(3)>> >>,
      << <<0, -Fixed(36)>>, <<Fixed(20), 0>> >>,
      << <<Fixed(20), 0>>, <<-Fixed(100), 0>> >>,
      << <<Fixed(MIN_WORLD_RADIUS + 10), 0>>, <<-Fixed(20), 0>> >>,
      << <<Fixed(MIN_WORLD_RADIUS + 20), 0>>, <<Fixed(MIN_WORLD_RADIUS + 65), 0>> >> }

\* The velocity the first particle has: none, along x, across.
StepVelocities == {ZERO, <<Fixed(2), 0>>, <<-Fixed(1), Fixed(1)>>}

\* The force every entry of the matrix has.
StepForces == {MIN_FORCE, DEFAULT_FORCE, MAX_FORCE}

\* The particle counts: one particle in every class, or two in class 0.
StepCounts ==
    {[c \in Classes |-> 1],
     [c \in Classes |-> IF c = 0 THEN MAX_PARTICLE_COUNT ELSE 0]}

\* The slot of the second particle: (1, 0) when every class has one
\* particle and there are two classes, (0, 1) otherwise.
SecondSlot(counts) ==
    IF counts[0] = 1 /\ MAX_CLASSES > 1 THEN <<1, 0>> ELSE <<0, 1>>

\* A table with v at (0, 0), w at the second slot and zero elsewhere.
StepTable(counts, v, w) ==
    [c \in Classes |-> [p \in Slots |->
        IF <<c, p>> = <<0, 0>> THEN v
        ELSE IF <<c, p>> = SecondSlot(counts) THEN w ELSE ZERO]]

\* The configuration of a run: the least world radius, n classes shown (0
\* after the import of a blob with class count 0 and a text seed), the
\* default radius.
StepShared(n, counts, force) ==
    [simulation_state |-> "Running",
     world_radius |-> MIN_WORLD_RADIUS,
     class_count |-> n,
     particle_counts |-> counts,
     param_matrix |-> [i \in Classes |-> [j \in Classes |->
                          Param(force, DEFAULT_RADIUS)]]]

StepInit ==
    /\ \E n \in 0 .. MAX_CLASSES, counts \in StepCounts, force \in StepForces :
          /\ sim_shared = StepShared(n, counts, force)
          /\ ui_shared = sim_shared
          /\ expected = sim_shared
          /\ \E pair \in StepPairs :
                particle_positions = StepTable(counts, pair[1], pair[2])
          /\ \E v \in StepVelocities :
                particle_velocities = StepTable(counts, v, ZERO)
    /\ sim_pc = "events"
    /\ events = <<>>
    /\ c1 = 0
    /\ c2 = 0
    /\ ui_rcv = <<>>
    /\ sim_rcv = <<>>
    /\ ui_positions = particle_positions
    /\ calculation_time = 0
    /\ seed = <<>>
    /\ ui_pc = "frame"
    /\ ui_sending = <<>>
    /\ history = <<>>
    /\ selected_history_entry = 0
    /\ codec_in = <<>>
    /\ kernel = <<>>
    /\ selected_particle = <<0, 0>>
    /\ move_start = ZeroTable
    /\ move_start_velocities = ZeroTable
    /\ last_event = "Play"
    /\ last_ui = "play"
    /\ taken = 0
    /\ ui_ops = MaxUiOps
    /\ updates = [c \in Classes |-> 0]
    /\ steps = 0

StepNext == SimMoveBegin \/ SimPass \/ SimPublish
StepSpec == StepInit /\ [][StepNext]_vars

(***************************************************************************)
(* The particle inspector.  A run has the two threads, the handlers that   *)
(* change a particle count or the simulation state, and frames that show   *)
(* the open inspector.                                                     *)
(***************************************************************************)
\* The handlers a run with the inspector has.
InspectorUiOps == 3

\* The indexes a run drags the index slider to: those of the table, and the
\* first one past its end.
InspectorIndexes == 0 .. MAX_PARTICLE_COUNT

\* Line 448: the values of 0..=(particle_counts[class] - 1), among those a
\* run tries.  With a count of 0 and overflow checks off, the usize
\* subtraction wraps to usize::MAX and the range holds every index.
SliderRange(count) ==
    IF count = 0 THEN InspectorIndexes
    ELSE {i \in InspectorIndexes : i <= count - 1}

\* The slider keeps its value within its range: a value above the upper
\* bound is shown, and stored, as the upper bound.
SliderValue(index, count) ==
    IF index \in SliderRange(count) THEN index ELSE count - 1

\* particle_positions[selected_particle]: indexing past the end panics.
TableIndexPanics(cls, index) ==
    ~ClassInBounds(cls) \/ index >= MAX_PARTICLE_COUNT

\* Lines 436-458: a frame with the inspector open.  The class box sets
\* selected_particle.0 to any of the classes; the range of the index slider
\* is computed from the count of that class, the subtraction panicking in a
\* build with overflow checks when the count is 0; the slider sets
\* selected_particle.1 to a value of its range, or keeps it; the position
\* of the selected particle is read and shown.
UiInspector ==
    /\ UiReady
    /\ \E cls \in Classes, drag \in InspectorIndexes \cup {-1},
          overflow_checks \in BOOLEAN :
          LET count == ui_shared.particle_counts[cls]
              index == IF drag \in SliderRange(count) THEN drag
                       ELSE SliderValue(selected_particle[2], count)
          IN  IF count = 0 /\ overflow_checks
              THEN /\ selected_particle' = <<cls, selected_particle[2]>>
                   /\ ui_pc' = "panicked"
              ELSE /\ selected_particle' = <<cls, index>>
                   /\ ui_pc' = IF TableIndexPanics(cls, index) THEN "panicked"
                               ELSE ui_pc
    /\ last_ui' = "inspector"
    /\ ui_ops' = ui_ops + 1
    /\ UNCHANGED <<ui_shared, seed, ui_sending, expected, ui_rcv, sim_rcv,
                   ui_positions, calculation_time, taken, history,
                   selected_history_entry, codec_in, kernel>>
    /\ UNCHANGED sim_vars

InspectorInit ==
    /\ sim_shared = SharedStateNew
    /\ particle_positions = ZeroTable
    /\ particle_velocities = ZeroTable
    /\ sim_pc = "update"
    /\ events = <<>>
    /\ c1 = 0
    /\ c2 = 0
    /\ ui_rcv = <<>>
    /\ sim_rcv = <<>>
    /\ ui_shared = SharedStateNew
    /\ ui_positions = ZeroTable
    /\ calculation_time = 0
    /\ seed = <<>>
    /\ ui_pc = "frame"
    /\ ui_sending = <<>>
    /\ history = <<>>
    /\ selected_history_entry = 0
    /\ codec_in = <<>>
    /\ move_start = ZeroTable
    /\ move_start_velocities = ZeroTable
    /\ last_event = "none"
    /\ last_ui = "none"
    /\ expected = SharedStateNew
    /\ taken = 0
    /\ ui_ops = MaxUiOps - InspectorUiOps
    /\ kernel = <<>>
    /\ selected_particle = <<0, 0>>
    /\ updates = [c \in Classes |-> 0]
    /\ steps = 0

InspectorNext ==
    \/ SimNext
    \/ UiReceive \/ UiSend \/ UiPlay \/ UiReset \/ UiParticleCount
    \/ UiInspector
InspectorSpec == InspectorInit /\ [][InspectorNext]_vars

(***************************************************************************)
(* Fairness.  Each thread is scheduled again and again and every sleep is  *)
(* finite: the simulation thread keeps taking its next step while it has   *)
(* one, and a join returns once the joined thread has ended.  The runs     *)
(* that state it start with LiveUiOps handlers left.                       *)
(***************************************************************************)
LiveUiOps == 3
LiveInit ==
    /\ sim_shared = SharedStateNew
    /\ particle_positions = ZeroTable
    /\ particle_velocities = ZeroTable
    /\ sim_pc = "update"
    /\ events = <<>>
    /\ c1 = 0
    /\ c2 = 0
    /\ ui_rcv = <<>>
    /\ sim_rcv = <<>>
    /\ ui_shared = SharedStateNew
    /\ ui_positions = ZeroTable
    /\ calculation_time = 0
    /\ seed = <<>>
    /\ ui_pc = "frame"
    /\ ui_sending = <<>>
    /\ history = <<>>
    /\ selected_history_entry = 0
    /\ codec_in = <<>>
    /\ move_start = ZeroTable
    /\ move_start_velocities = ZeroTable
    /\ last_event = "none"
    /\ last_ui = "none"
    /\ expected = SharedStateNew
    /\ taken = 0
    /\ ui_ops = MaxUiOps - LiveUiOps
    /\ kernel = <<>>
    /\ selected_particle = <<0, 0>>
    /\ updates = [c \in Classes |-> 0]
    /\ steps = 0
\* Weak fairness of SimPass, written out: a pass is enabled exactly when
\* PassLeft holds, since it always moves the loop indices or panics.
PassFairness == []<>(~PassLeft) \/ []<><<SimPass>>_vars

LiveSpec ==
    /\ LiveInit
    /\ [][Next]_vars
    /\ WF_vars(SimCollect \/ SimEvent \/ SimMoveBegin \/ SimIdle \/ SimPublish)
    /\ PassFairness
    /\ WF_vars(UiJoin)

(***************************************************************************)
(* Properties.                                                             *)
(***************************************************************************)
\* The simulation thread is still in its loop.
SimAlive == sim_pc \notin {"exited", "panicked"}

\* The loop body of update has just processed the next collected event.
EventProcessed == sim_pc = "events" /\ events /= <<>> /\ events' /= events

\* The pass about to run, for (c1, c2), reads the position of (c2, p2): the
\* row of c1 has a particle to update and p2 is active.
PassReads(p2) ==
    /\ sim_pc = "move"
    /\ c1 < sim_shared.class_count
    /\ ~PassPanics(sim_shared, c1, c2)
    /\ sim_shared.particle_counts[c1] > 0
    /\ p2 < sim_shared.particle_counts[c2]

\* No pass of the running step has written the row of class c2 yet.
NotYetWritten == c2 > c1 \/ (c1 = 0 /\ c2 = 0)

\* C1 as stated: in every pass of a step, the position of (c2, p2) read
\* while updating the particles of c1 is the one (c2, p2) had when the step
\* began.
C1_ReadsPreStepPositions ==
    \A p2 \in Slots :
        PassReads(p2) => particle_positions[c2][p2] = move_start[c2][p2]

\* C1 as amended: the position of (c2, p2) read in the pass for (c1, c2) is
\* the pre-step one whenever no earlier pass of the step has written class
\* c2, that is when c2 > c1 or the pass is the first one.
C1_ReadsPreStepUntilWritten ==
    \A p2 \in Slots :
        PassReads(p2) /\ NotYetWritten =>
            particle_positions[c2][p2] = move_start[c2][p2]

\* The pass for (0, 1) is about to read class 1 after the pass for (0, 0)
\* has moved class 0.
C1_Witness ==
    /\ \E p2 \in Slots : PassReads(p2)
    /\ c1 = 0
    /\ c2 = 1
    /\ particle_positions[0] /= move_start[0]

\* C2: a step begins only when every collected event has been applied and
\* the state is then Running; velocities change only in a step; outside
\* Running, positions change only by Spawn or Reset, and the configuration
\* updates and Spawn are applied all the same.
C2_StepsOnlyWhenRunning ==
    [][/\ steps' /= steps =>
            events = <<>> /\ sim_shared.simulation_state = "Running"
       /\ particle_velocities' /= particle_velocities =>
            sim_pc = "move" /\ sim_shared.simulation_state = "Running"
       /\ (particle_positions' /= particle_positions
             /\ sim_shared.simulation_state /= "Running") =>
            EventProcessed /\ Head(events).type \in {"Spawn", "Reset"}
       /\ (EventProcessed /\ sim_shared.simulation_state /= "Running") =>
            LET event == Head(events)
            IN  /\ event.type = "ParamsUpdate" =>
                      sim_shared'.param_matrix = event.params
                /\ event.type = "ClassCountUpdate" =>
                      sim_shared'.class_count = event.class_count
                /\ event.type = "ParticleCountsUpdate" =>
                      sim_shared'.particle_counts = event.particle_counts
                /\ event.type = "WorldRadiusUpdate" =>
                      sim_shared'.world_radius = event.world_radius
                /\ (event.type = "Spawn" /\ sim_pc' /= "panicked") =>
                      /\ sim_rcv' = Append(sim_rcv,
                                           SimResults(<<>>, particle_positions'))
                      /\ \A c \in Classes, p \in Slots :
                            Active(sim_shared, c, p) =>
                               \E k \in 1 .. Len(SpawnPoints) :
                                  particle_positions'[c][p] = SpawnPoints[k]
      ]_vars

\* Paused after a step, the engine has applied new particle counts and the
\* tick has ended without a step.
C2_Witness ==
    /\ sim_pc = "update"
    /\ sim_shared.simulation_state = "Paused"
    /\ last_event = "ParticleCountsUpdate"
    /\ \E c \in Classes : sim_shared.particle_counts[c] > 0
    /\ steps >= 1

RECURSIVE ApplyAll(_, _)
ApplyAll(shared, evs) ==
    IF evs = <<>> THEN shared
    ELSE ApplyAll(ApplyToShared(shared, Head(evs)), Tail(evs))

\* C4: a tick collects the whole queue in the queue's order, applies the
\* events oldest first and decides about the step when none is left; it
\* steps at most once; and the engine's shared state, with the events still
\* on their way applied to it in order, is the one the events sent so far
\* lead to in the order of the sends (so the last update of a kind wins).
C4_AppliesDrainedInOrder ==
    /\ [](SimAlive => ApplyAll(sim_shared, events \o ui_rcv) = expected)
    /\ [][/\ (sim_pc = "update" /\ sim_pc' = "events") =>
                events' = ui_rcv /\ ui_rcv' = <<>>
          /\ (EventProcessed /\ SimAlive') => events' = Tail(events)
          /\ steps' /= steps =>
                /\ sim_pc = "events"
                /\ events = <<>>
                /\ steps' = steps + 1
          /\ (sim_pc' = "events" /\ sim_pc /= "events") => sim_pc = "update"
          /\ sim_pc = "move" => sim_pc' \in {"move", "update", "panicked"}
         ]_vars

\* A tick that will step has collected two parameter updates that differ.
C4_Witness ==
    /\ sim_pc = "events"
    /\ StateAfter(sim_shared.simulation_state, events) = "Running"
    /\ \E i, j \in 1 .. Len(events) :
          /\ i < j
          /\ events[i].type = "ParamsUpdate"
          /\ events[j].type = "ParamsUpdate"
          /\ events[i].params /= events[j].params

\* C5: a frame can always take its results, whatever the queue holds; when
\* it does, the queue is left empty and, if it held results, the table
\* shown is the one of the last of them; the table shown changes in no
\* other way.
C5_FrameTakesLastResult ==
    /\ []((ui_pc = "frame" /\ ui_sending = <<>>) => ENABLED UiReceive)
    /\ [][/\ Len(sim_rcv') < Len(sim_rcv) =>
                /\ sim_rcv' = <<>>
                /\ ui_positions' = sim_rcv[Len(sim_rcv)].positions
          /\ ui_positions' /= ui_positions =>
                sim_rcv /= <<>> /\ sim_rcv' = <<>>
         ]_vars

\* A frame has found two results or more, whose tables differ, and shows
\* the last.
C5_Witness ==
    /\ taken >= 2
    /\ sim_rcv = <<>>
    /\ ui_positions /= ZeroTable
    /\ ui_positions = particle_positions

\* The run has no step left for a tick that would step.
StepBudgetSpent ==
    /\ StateAfter(sim_shared.simulation_state, ui_rcv) = "Running"
    /\ steps >= MaxSteps

\* C6: wherever the simulation thread is in its tick, its next step can be
\* taken, whatever the two queues hold and wherever the presentation thread
\* is: it can collect, process the next event or decide about the step,
\* and in a step either a pass is left (a pass waits for nothing) or the
\* result can be published.
C6_SimulationNeverWaits ==
    /\ (sim_pc = "update" /\ ~StepBudgetSpent) => ENABLED SimCollect
    /\ sim_pc = "events" => ENABLED (SimEvent \/ SimMoveBegin \/ SimIdle)
    /\ sim_pc = "move" => (PassLeft \/ ENABLED SimPublish)

\* The engine has published a step result behind a result not yet taken,
\* has ended its tick, and the event queue is empty.
C6_Witness ==
    /\ sim_pc = "update"
    /\ ui_rcv = <<>>
    /\ Len(sim_rcv) >= 2
    /\ sim_rcv[Len(sim_rcv)].elapsed /= <<>>
    /\ ui_pc = "frame"

\* Quit is among the events the running tick has collected.
QuitCollected == \E i \in 1 .. Len(events) : events[i].type = "Quit"

\* C7: once Quit is sent the simulation thread ends and the join returns;
\* the tick that has collected Quit neither steps nor publishes a step
\* result and returns false at Quit; the thread does nothing after that;
\* and the window closes only after the thread has ended.
C7_QuitStopsSimulation ==
    /\ (ui_pc = "joining") ~> (sim_pc = "exited")
    /\ (ui_pc = "joining") ~> (ui_pc = "closed")
    /\ [](ui_pc = "closed" => sim_pc = "exited")
    /\ [][/\ QuitCollected =>
                /\ steps' = steps
                /\ sim_pc' /= "move"
                /\ \/ sim_rcv' = sim_rcv
                   \/ /\ Len(sim_rcv') = Len(sim_rcv) + 1
                      /\ sim_rcv'[Len(sim_rcv')].elapsed = <<>>
          /\ (EventProcessed /\ Head(events).type = "Quit") =>
                /\ sim_pc' = "exited"
                /\ UNCHANGED <<sim_shared, particle_positions,
                               particle_velocities, sim_rcv>>
          /\ sim_pc = "exited" => UNCHANGED <<sim_vars, sim_rcv>>
         ]_vars

\* The window has closed after a run in which the engine stepped.
C7_Witness ==
    /\ ui_pc = "closed"
    /\ sim_pc = "exited"
    /\ last_event = "Quit"
    /\ steps >= 1

\* C8: when Reset is the last event the engine has processed, its world
\* radius, every parameter entry and every count have their defaults and
\* the state is Stopped.
C8_ResetRestoresDefaults ==
    (last_event = "Reset" /\ sim_pc /= "panicked") =>
        /\ sim_shared.world_radius = DEFAULT_WORLD_RADIUS
        /\ \A i, j \in Classes :
              /\ sim_shared.param_matrix[i][j].force = DEFAULT_FORCE
              /\ sim_shared.param_matrix[i][j].radius = DEFAULT_RADIUS
        /\ \A c \in Classes : sim_shared.particle_counts[c] = 0
        /\ sim_shared.simulation_state = "Stopped"

\* Reset was the last event sent and the engine has processed it, after a
\* world radius, a particle count and a force had been changed.
C8_Witness ==
    /\ last_event = "Reset"
    /\ last_ui = "reset"
    /\ ui_rcv = <<>>
    /\ events = <<>>
    /\ ui_shared.world_radius /= DEFAULT_WORLD_RADIUS
    /\ \E c \in Classes : ui_shared.particle_counts[c] > 0
    /\ \E i, j \in Classes : ui_shared.param_matrix[i][j].force /= DEFAULT_FORCE

\* The default configuration for n classes: default world radius, no
\* particle, every parameter entry default.
DefaultConfiguration(n) == [SharedStateNew EXCEPT !.class_count = n]

\* C9 as stated: when reset() was the last handler, export() returns the
\* encoding of the default configuration.
C9_ResetThenExportIsDefault ==
    last_ui = "reset" =>
        export(ui_shared) = export(DefaultConfiguration(ui_shared.class_count))

\* C10 as stated: when the engine has just processed Spawn, every active
\* slot has velocity zero.
C10_SpawnZeroesVelocities ==
    (last_event = "Spawn" /\ sim_pc = "events") =>
        \A c \in Classes, p \in Slots :
            Active(sim_shared, c, p) => particle_velocities[c][p] = ZERO

\* C11 as stated: every slot outside the active window holds the zero
\* position and the zero velocity.
C11_InactiveSlotsZero ==
    \A c \in Classes, p \in Slots :
        ~Active(sim_shared, c, p) =>
            /\ particle_positions[c][p] = ZERO
            /\ particle_velocities[c][p] = ZERO

\* A table with every slot that is not active set to v.
Masked(shared, table, v) ==
    [c \in Classes |-> [p \in Slots |->
        IF Active(shared, c, p) THEN table[c][p] ELSE v]]

\* The configuration with the parameters of the pair (a, b) replaced.
WithParam(shared, a, b, param) ==
    [shared EXCEPT !.param_matrix[a][b] = param]

\* A position out of reach of every particle of a run: farther than
\* MAX_RADIUS from the spawn area.
FarAway == <<Fixed(SPAWN_AREA_RADIUS + MAX_RADIUS), 0>>

Configuration(shared) ==
    [world_radius |-> shared.world_radius,
     class_count |-> shared.class_count,
     particle_counts |-> shared.particle_counts,
     param_matrix |-> shared.param_matrix]

\* The ranges of the sliders.
ClassCountInRange(shared) ==
    MIN_CLASSES <= shared.class_count /\ shared.class_count <= MAX_CLASSES
ParticleCountsInRange(shared) ==
    \A c \in Classes : shared.particle_counts[c] <= MAX_PARTICLE_COUNT
ParamsInRange(params) ==
    \A i, j \in Classes :
        /\ MIN_FORCE <= params[i][j].force
        /\ params[i][j].force <= MAX_FORCE
        /\ MIN_RADIUS <= params[i][j].radius
        /\ params[i][j].radius <= MAX_RADIUS
InRange(shared) ==
    /\ MIN_WORLD_RADIUS <= shared.world_radius
    /\ shared.world_radius <= MAX_WORLD_RADIUS
    /\ ClassCountInRange(shared)
    /\ ParticleCountsInRange(shared)
    /\ ParamsInRange(shared.param_matrix)

\* The simulation thread has nothing left to process and the presentation
\* thread nothing left to send.
Drained ==
    /\ ui_sending = <<>>
    /\ ui_rcv = <<>>
    /\ events = <<>>
    /\ SimAlive

\* C13 as stated: when "apply" has imported a seed that export produced
\* from an in-range configuration, the presentation thread holds that
\* configuration (exporting it gives the seed again) and, once the engine
\* has drained its queue, the engine holds it too.
C13_AppliedExportReachesEngine ==
    (last_ui = "apply" /\ Imports(seed) /\ InRange(ui_shared)) =>
        /\ export(ui_shared) = seed
        /\ Drained => Configuration(sim_shared) = Configuration(ui_shared)

\* Whether a value in its natural unit is within 1 of a value in
\* thousandths, and equal to it when that one is whole.
WithinOne(value, milli) ==
    /\ Abs(value * Thousand - milli) <= Thousand
    /\ milli % Thousand = 0 => value * Thousand = milli

\* What C14 says of the class count, the particle counts and the matrix,
\* and of the second export: the counts are reproduced, every force and
\* radius to within 1, and exporting the imported configuration gives the
\* seed again.
C14_RoundTripRest ==
    /\ ui_shared.class_count = codec_in.class_count
    /\ ui_shared.particle_counts = codec_in.particle_counts
    /\ \A i, j \in Classes :
          /\ WithinOne(ui_shared.param_matrix[i][j].force,
                       codec_in.param_matrix[i][j].force)
          /\ WithinOne(ui_shared.param_matrix[i][j].radius,
                       codec_in.param_matrix[i][j].radius)
    /\ export(ui_shared) = seed

\* C14 as stated: importing the export of an in-range configuration
\* reproduces the world radius, the class count and the particle counts,
\* every force and radius to within 1, and exports to the same seed.
C14_RoundTrip ==
    (last_ui = "import" /\ codec_in /= <<>>) =>
        /\ ui_shared.world_radius * Thousand = codec_in.world_radius
        /\ C14_RoundTripRest

\* C14 as amended: the world radius too is reproduced to within 1, and
\* exactly when it is whole.
C14_RoundTripWithinOne ==
    (last_ui = "import" /\ codec_in /= <<>>) =>
        /\ WithinOne(ui_shared.world_radius, codec_in.world_radius)
        /\ C14_RoundTripRest

\* A configuration with a world radius and a radius that are not whole and
\* a negative force has been exported and imported.
C14_Witness ==
    /\ last_ui = "import"
    /\ codec_in /= <<>>
    /\ codec_in.world_radius % Thousand /= 0
    /\ codec_in.param_matrix[0][0].radius % Thousand /= 0
    /\ codec_in.param_matrix[0][0].force = MIN_FORCE * Thousand
    /\ ui_shared.param_matrix[0][0].force = MIN_FORCE
    /\ ui_shared.class_count = MIN_CLASSES

\* The byte at offset k of the blob a seed decodes to, two's complement.
SignedByte(bytes, k) ==
    IF bytes[k + 1] >= 128 THEN bytes[k + 1] - 256 ELSE bytes[k + 1]

\* The offsets of the layout: the count of class c, the entry (i, j).
CountOffset(c) == 3 + 2 * c
ParamOffset(i, j) == 3 + 2 * MAX_CLASSES + 2 * (i * MAX_CLASSES + j)

\* C15 as stated: after the import of a blob, every field the blob holds
\* whole has its decoded value and every other field its default: the
\* world radius DEFAULT_WORLD_RADIUS, a particle count 0, a force
\* DEFAULT_FORCE, a radius DEFAULT_RADIUS.
C15_TruncatedImportDefaults ==
    (last_ui = "import" /\ codec_in = <<>>) =>
        LET bytes == Base64Decode(Tail(seed)).bytes
            n == Len(bytes)
        IN  /\ ui_shared.world_radius =
                  IF n >= 2 THEN bytes[1] + 256 * bytes[2]
                            ELSE DEFAULT_WORLD_RADIUS
            /\ n >= 3 => ui_shared.class_count = bytes[3]
            /\ \A c \in Classes :
                  ui_shared.particle_counts[c] =
                      IF n >= CountOffset(c) + 2
                      THEN bytes[CountOffset(c) + 1]
                              + 256 * bytes[CountOffset(c) + 2]
                      ELSE 0
            /\ \A i, j \in Classes :
                  /\ ui_shared.param_matrix[i][j].force =
                        IF n >= ParamOffset(i, j) + 1
                        THEN SignedByte(bytes, ParamOffset(i, j))
                        ELSE DEFAULT_FORCE
                  /\ ui_shared.param_matrix[i][j].radius =
                        IF n >= ParamOffset(i, j) + 2
                        THEN SignedByte(bytes, ParamOffset(i, j) + 1)
                        ELSE DEFAULT_RADIUS

\* A seed handler has just applied the text seed' holds.
SeedApplied ==
    /\ ui_ops' = ui_ops + 1
    /\ last_ui' \in {"apply", "randomize", "history"}

\* C16 as stated: applying a seed that starts with '@' and whose rest is
\* not base64 does not fail and imports nothing; the whole seed is hashed,
\* the counts and the matrix of the classes shown are derived from the
\* hash, and the derived configuration is sent to the engine (ParamsUpdate
\* first, then ClassCountUpdate and ParticleCountsUpdate, before Spawn).
C16_MalformedImportIsText ==
    [][(SeedApplied /\ ImportsAnyAt(seed') /\ ~Imports(seed')) =>
          /\ ui_pc' = "frame"
          /\ ui_shared' = Derived(ui_shared, Hash(seed'))
          /\ ui_rcv' = Append(ui_rcv, ParamsUpdate(ui_shared'.param_matrix))
          /\ ui_sending' = <<ClassCountUpdate(ui_shared'.class_count),
                             ParticleCountsUpdate(ui_shared'.particle_counts),
                             Spawn>>]_vars

\* C17 as stated: whatever configuration a non-empty text seed without '@'
\* is applied to, the particle counts and the whole matrix it leaves are
\* those it leaves when applied to the configuration of a new Smarticles.
C17_SameTextSameConfiguration ==
    [][(SeedApplied /\ seed' /= <<>> /\ ~ImportsAnyAt(seed')) =>
          LET reference == ApplyText(SharedStateNew, Hash(seed')).shared
          IN  /\ ui_shared'.particle_counts = reference.particle_counts
              /\ ui_shared'.param_matrix = reference.param_matrix]_vars

\* C18 as stated: whatever ClassCountUpdate and ParticleCountsUpdate have
\* carried, the simulation thread is never about to index a table out of
\* bounds: not in spawn, not in reset, not in a pass of a step.
C18_EngineIndexesInBounds ==
    /\ (sim_pc = "events" /\ events /= <<>>) =>
          /\ Head(events).type = "Spawn" => ~LoopsPanic(sim_shared)
          /\ Head(events).type = "Reset" => sim_shared.class_count <= MAX_CLASSES
    /\ PassLeft => ~PassPanics(sim_shared, c1, c2)

\* The matrices on their way to the engine.
ParamsIn(queue) ==
    {queue[k].params :
        k \in {n \in 1 .. Len(queue) : queue[n].type = "ParamsUpdate"}}
ParamsInFlight == ParamsIn(ui_sending) \cup ParamsIn(ui_rcv) \cup ParamsIn(events)

\* C19 as stated: every entry of the matrix the presentation thread holds,
\* of every matrix sent and of the matrix the engine holds has its force
\* in [MIN_FORCE, MAX_FORCE] and its radius in [MIN_RADIUS, MAX_RADIUS].
C19_MatrixInRange ==
    /\ ParamsInRange(ui_shared.param_matrix)
    /\ ParamsInRange(sim_shared.param_matrix)
    /\ \A params \in ParamsInFlight : ParamsInRange(params)

\* C20 as stated: the class count is within MIN_CLASSES..MAX_CLASSES and
\* every particle count at most MAX_PARTICLE_COUNT, in the presentation
\* thread and in the engine.
C20_CountsInRange ==
    /\ ClassCountInRange(ui_shared)
    /\ ParticleCountsInRange(ui_shared)
    /\ ClassCountInRange(sim_shared)
    /\ ParticleCountsInRange(sim_shared)

\* A call of the kernel has returned; r is the length of its distance.
KernelReturned == kernel /= <<>> /\ kernel.returned
KernelR == Length(kernel.distance)

\* C21 as stated: the kernel returns the zero vector for every distance of
\* length r >= action_radius, whatever the action radius and the force.
C21_ZeroBeyondActionRadius ==
    (KernelReturned /\ KernelR >= Fixed(kernel.action_radius)) =>
        kernel.result = ZERO

\* C21 as amended: the kernel returns the zero vector for every distance of
\* length r >= action_radius that is 0 or at least RAMP_START_RADIUS,
\* whatever the action radius and the force.
C21_ZeroBeyondActionRadiusAndRamp ==
    (/\ KernelReturned
     /\ KernelR >= Fixed(kernel.action_radius)
     /\ KernelR = 0 \/ KernelR >= Fixed(RAMP_START_RADIUS)) =>
        kernel.result = ZERO

\* The kernel has returned for a distance exactly as long as the action
\* radius, beyond the ramp, with the strongest force.
C21_Witness ==
    /\ KernelReturned
    /\ KernelR = Fixed(kernel.action_radius)
    /\ kernel.action_radius = DEFAULT_RADIUS
    /\ kernel.force = -MAX_FORCE * FORCE_FACTOR
    /\ kernel.result = ZERO

\* The magnitude CLOSE_FORCE * (1 - r / RAMP_START_RADIUS) and the
\* magnitude |force| * ramp, fixed-point.
CloseMagnitude(r) ==
    RDiv(CLOSE_FORCE * (Fixed(RAMP_START_RADIUS) - r),
         RAMP_START_RADIUS * Thousand)
MidMagnitude(force, ramp) == RDiv(Abs(force) * ramp, Thousand)

\* The rounding of a result: each of the two products of the kernel rounds
\* each coordinate once.
Rounding == 2

\* Whether v points along d (Along) or against it (Against), up to the
\* rounding of its coordinates.
Cross(v, d) == v[1] * d[2] - v[2] * d[1]
Dot(v, d) == v[1] * d[1] + v[2] * d[2]
Against(v, d) == Dot(v, d) <= 0 /\ Abs(Cross(v, d)) <= Rounding * Length(d)
Along(v, d) == Dot(v, d) >= 0 /\ Abs(Cross(v, d)) <= Rounding * Length(d)

\* C22: for 0 < r <= RAMP_START_RADIUS the kernel returns a vector that
\* points against the distance (away from the other particle), of
\* magnitude CLOSE_FORCE * (1 - r / RAMP_START_RADIUS), zero at r =
\* RAMP_START_RADIUS, and the same for every force and every action radius.
C22_CloseForceRepels ==
    (KernelReturned /\ 0 < KernelR /\ KernelR <= Fixed(RAMP_START_RADIUS)) =>
        /\ Against(kernel.result, kernel.distance)
        /\ Abs(Length(kernel.result) - CloseMagnitude(KernelR)) <= Rounding
        /\ KernelR = Fixed(RAMP_START_RADIUS) => kernel.result = ZERO
        /\ \A force \in KernelForces, radius \in KernelRadii :
              get_partial_velocity(kernel.distance, radius, force)
                  = kernel.result

\* The kernel has returned a repulsion for a distance of 5 along (-3, 4),
\* called with the strongest attraction.
C22_Witness ==
    /\ KernelReturned
    /\ kernel.distance = <<-3 * Fixed(1), 4 * Fixed(1)>>
    /\ kernel.force = MAX_FORCE * FORCE_FACTOR
    /\ kernel.result[1] > 0
    /\ kernel.result[2] < 0

\* C23: for an action radius of RAMP_START_RADIUS + RAMP_LENGTH or more,
\* the result is zero at r = RAMP_START_RADIUS, where the factor
\* ramp_then_const is 0; the factor is 2 (r - RAMP_START_RADIUS) /
\* (RAMP_START_RADIUS + RAMP_LENGTH) up to r = RAMP_START_RADIUS +
\* RAMP_LENGTH and 2 RAMP_LENGTH / (RAMP_START_RADIUS + RAMP_LENGTH) from
\* there on; and the magnitude of the mid-range result is |force| times the
\* factor, so that it has no jump at RAMP_START_RADIUS.
C23_NoJumpAtRampStart ==
    (KernelReturned
        /\ kernel.action_radius >= RAMP_START_RADIUS + RAMP_LENGTH) =>
        /\ KernelR = Fixed(RAMP_START_RADIUS) =>
              kernel.result = ZERO /\ kernel.ramp = 0
        /\ (Fixed(RAMP_START_RADIUS) <= KernelR
                /\ KernelR <= Fixed(RAMP_START_RADIUS + RAMP_LENGTH)) =>
              kernel.ramp = RDiv(2 * (KernelR - Fixed(RAMP_START_RADIUS)),
                                 RAMP_START_RADIUS + RAMP_LENGTH)
        /\ KernelR >= Fixed(RAMP_START_RADIUS + RAMP_LENGTH) =>
              kernel.ramp = RDiv(2 * Fixed(RAMP_LENGTH),
                                 RAMP_START_RADIUS + RAMP_LENGTH)
        /\ (Fixed(RAMP_START_RADIUS) < KernelR
                /\ KernelR < Fixed(kernel.action_radius)) =>
              Abs(Length(kernel.result) - MidMagnitude(kernel.force, kernel.ramp))
                  <= Rounding

\* The kernel has returned on the plateau, for a distance of 60 within an
\* action radius of DEFAULT_RADIUS and the strongest force.
C23_Witness ==
    /\ KernelReturned
    /\ kernel.action_radius = DEFAULT_RADIUS
    /\ KernelR = Fixed(60)
    /\ Abs(kernel.force) = MAX_FORCE * FORCE_FACTOR
    /\ kernel.ramp = RDiv(2 * Fixed(RAMP_LENGTH), RAMP_START_RADIUS + RAMP_LENGTH)
    /\ kernel.result /= ZERO

\* move_particles has run its passes; a pass has just run.
StepDone == steps >= 1 /\ ~PassLeft
PassTaken == PassLeft /\ <<c1', c2'>> /= <<c1, c2>>

\* C24 as stated: after a step, every active particle that was farther
\* from the centre than world_radius before the step is strictly closer to
\* the centre than it was.
C24_BeyondWorldRadiusMovesCloser ==
    StepDone =>
        \A c \in Classes, p \in Slots :
            (Active(sim_shared, c, p)
                /\ Length(move_start[c][p]) > Fixed(sim_shared.world_radius)) =>
                Length(particle_positions[c][p]) < Length(move_start[c][p])

\* Every force of the matrix is zero.
ForcesZero ==
    \A i, j \in Classes : sim_shared.param_matrix[i][j].force = 0

\* The step started with every active particle where a spawn puts it,
\* within SPAWN_AREA_RADIUS of the centre.
AfterSpawn ==
    \A c \in Classes, p \in Slots :
        Active(sim_shared, c, p) =>
            Length(move_start[c][p]) < Fixed(SPAWN_AREA_RADIUS)

\* C25 as stated: with every force zero, after a step that follows a spawn
\* a particle that had no velocity before the step has the position it had
\* and no velocity, and no particle is faster than it was before the step.
C25_ZeroForcesOnlyDamp ==
    (StepDone /\ ForcesZero /\ AfterSpawn) =>
        \A c \in Classes, p \in Slots :
            Active(sim_shared, c, p) =>
                /\ move_start_velocities[c][p] = ZERO =>
                      /\ particle_positions[c][p] = move_start[c][p]
                      /\ particle_velocities[c][p] = ZERO
                /\ Length(particle_velocities[c][p])
                      <= Length(move_start_velocities[c][p])

\* In the pass under way, particle p of c1 is inside the world radius and
\* no particle of c2 is within RAMP_START_RADIUS of it.
Undisturbed(p) ==
    LET pos == particle_positions[c1][p]
    IN  /\ Length(pos) < Fixed(sim_shared.world_radius)
        /\ \A q \in Slots :
              q < sim_shared.particle_counts[c2] =>
                  LET r == Length(VSub(particle_positions[c2][q], pos))
                  IN  r = 0 \/ r > Fixed(RAMP_START_RADIUS)

\* C25 as amended: with every force zero, a pass (c1, c2) changes a
\* particle of c1 that is inside the world radius and has no particle of
\* c2 within RAMP_START_RADIUS only through its own velocity: the velocity
\* is multiplied by the damping factor and the position moved by the new
\* velocity, so a particle at rest stays where it is and no speed grows.
C25_ZeroForcesOnlyDampUndisturbed ==
    [][(PassTaken /\ ForcesZero) =>
          \A p \in Slots :
              (p < sim_shared.particle_counts[c1] /\ Undisturbed(p)) =>
                  LET vel == particle_velocities[c1][p]
                      pos == particle_positions[c1][p]
                  IN  /\ particle_velocities'[c1][p] =
                            VMulMilli(vel, DEFAULT_DAMPING_FACTOR)
                      /\ particle_positions'[c1][p] =
                            VAdd(pos, VMulMilli(VMulInt(particle_velocities'[c1][p],
                                                        POS_FACTOR),
                                                UPDATE_INTERVAL))
                      /\ vel = ZERO =>
                            /\ particle_positions'[c1][p] = pos
                            /\ particle_velocities'[c1][p] = ZERO
                      /\ Length(particle_velocities'[c1][p]) <= Length(vel)]_vars

\* With every force zero, a particle 120 away from the other has been
\* through a step with a velocity, and is slower and elsewhere.
C25_Witness ==
    /\ StepDone
    /\ ForcesZero
    /\ sim_shared.class_count = MAX_CLASSES
    /\ move_start[0][0] = <<Fixed(20), 0>>
    /\ \E c \in Classes, p \in Slots :
          Active(sim_shared, c, p) /\ move_start[c][p] = <<-Fixed(100), 0>>
    /\ move_start_velocities[0][0] = <<Fixed(2), 0>>
    /\ particle_velocities[0][0] /= ZERO
    /\ Length(particle_velocities[0][0]) < Fixed(2)
    /\ particle_positions[0][0] /= move_start[0][0]

\* The orders in which n particles can be evaluated.
Orders(n) ==
    {order \in [1 .. n -> 0 .. (n - 1)] :
        \A i, j \in 1 .. n : i /= j => order[i] /= order[j]}

\* The results of the closure evaluated in an order, each from the tables
\* given, kept aside until all are there.
RECURSIVE EvaluatedInOrder(_, _, _, _, _, _)
EvaluatedInOrder(shared, positions, velocities, a, b, order) ==
    IF order = <<>> THEN [p \in {} |-> [pos |-> ZERO, vel |-> ZERO]]
    ELSE LET rest == EvaluatedInOrder(shared, positions, velocities, a, b,
                                      Tail(order))
         IN  [p \in DOMAIN rest \cup {Head(order)} |->
                 IF p = Head(order)
                 THEN MapParticle(shared, positions, velocities, a, b, p)
                 ELSE rest[p]]

\* C28: a pass (c1, c2), c1 = c2 included, leaves every active particle of
\* c1 with the position and the velocity computed from the tables as they
\* were when the pass started, in whatever order the particles are
\* evaluated.
C28_PassReadsItsStart ==
    [][PassTaken =>
          \A order \in Orders(sim_shared.particle_counts[c1]) :
              LET res == EvaluatedInOrder(sim_shared, particle_positions,
                                          particle_velocities, c1, c2, order)
              IN  \A p \in Slots :
                      p < sim_shared.particle_counts[c1] =>
                          /\ particle_positions'[c1][p] = res[p].pos
                          /\ particle_velocities'[c1][p] = res[p].vel]_vars

\* The two particles of class 0, 5 apart and at rest, have been through
\* the pass (0, 0) and both have a velocity.
C28_Witness ==
    /\ steps >= 1
    /\ sim_shared.particle_counts[0] = MAX_PARTICLE_COUNT
    /\ updates[0] >= 1
    /\ move_start[0][0] = <<-Fixed(20), 0>>
    /\ move_start_velocities[0][0] = ZERO
    /\ particle_velocities[0][0] /= ZERO
    /\ particle_velocities[0][1] /= ZERO

\* C29: a step starts with the pass (0, 0); after the pass (c1, c2) comes
\* (c1, c2 + 1), or (c1 + 1, 0) after the last c2; a pass gives every
\* active particle of c1 the velocity (vel + dv) * damping and moves it by
\* POS_FACTOR * dt times that velocity from where the previous pass left
\* it, and leaves the other classes alone; when the step publishes, the
\* rows of every class shown have been written class_count times and no
\* other row has been written; with class_count 0 there is no pass.
C29_PassesInOrder ==
    [][/\ (sim_pc = "events" /\ sim_pc' = "move") =>
             c1' = 0 /\ c2' = 0 /\ updates' = [c \in Classes |-> 0]
       /\ PassTaken =>
             /\ <<c1', c2'>> =
                   IF c2 + 1 < sim_shared.class_count THEN <<c1, c2 + 1>>
                                                      ELSE <<c1 + 1, 0>>
             /\ \A p \in Slots :
                   p < sim_shared.particle_counts[c1] =>
                       /\ particle_velocities'[c1][p] =
                             MapParticle(sim_shared, particle_positions,
                                         particle_velocities, c1, c2, p).vel
                       /\ particle_positions'[c1][p] =
                             VAdd(particle_positions[c1][p],
                                  VMulMilli(VMulInt(particle_velocities'[c1][p],
                                                    POS_FACTOR),
                                            UPDATE_INTERVAL))
             /\ \A c \in Classes \ {c1} :
                   /\ particle_positions'[c] = particle_positions[c]
                   /\ particle_velocities'[c] = particle_velocities[c]
       /\ (sim_pc = "move" /\ sim_pc' /= "move" /\ sim_pc' /= "panicked") =>
             /\ \A c \in Classes :
                   updates[c] = IF c < sim_shared.class_count
                                THEN sim_shared.class_count ELSE 0
             /\ sim_shared.class_count = 0 =>
                   /\ particle_positions = move_start
                   /\ particle_velocities = move_start_velocities]_vars

\* A step with every class shown is over: each class has been written
\* MAX_CLASSES times, and the first particle's velocity has been damped
\* as often.
C29_Witness ==
    /\ StepDone
    /\ sim_pc = "update"
    /\ sim_shared.class_count = MAX_CLASSES
    /\ \A c \in Classes : updates[c] = MAX_CLASSES
    /\ move_start_velocities[0][0] = <<Fixed(2), 0>>
    /\ particle_velocities[0][0] /= move_start_velocities[0][0]
    /\ particle_positions[0][0] /= move_start[0][0]

\* In the pass under way, particle q of c2 is at a mid-range distance from
\* particle p of c1, which is inside the world radius, and no other
\* particle of c2 acts on p.
MidRangeAlone(p, q) ==
    LET pos == particle_positions[c1][p]
        radius == sim_shared.param_matrix[c1][c2].radius
        r == Length(VSub(particle_positions[c2][q], pos))
    IN  /\ Length(pos) < Fixed(sim_shared.world_radius)
        /\ Fixed(RAMP_START_RADIUS) < r
        /\ r < Fixed(radius)
        /\ \A o \in Slots :
              (o < sim_shared.particle_counts[c2] /\ o /= q) =>
                  LET ro == Length(VSub(particle_positions[c2][o], pos))
                  IN  ro = 0 \/ ro >= Fixed(radius)

\* C30: in a pass (c1, c2), a particle of c2 at a mid-range distance from a
\* particle of c1 changes the velocity of that particle, beyond its
\* damping, away from itself when the force of (c1, c2) is positive,
\* toward itself when it is negative, and not at all when it is zero.
C30_ForceSignGivesDirection ==
    [][PassTaken =>
          \A p, q \in Slots :
              (/\ p < sim_shared.particle_counts[c1]
               /\ q < sim_shared.particle_counts[c2]
               /\ MidRangeAlone(p, q)) =>
                  LET d == VSub(particle_positions[c2][q],
                                particle_positions[c1][p])
                      change == VSub(particle_velocities'[c1][p],
                                     VMulMilli(particle_velocities[c1][p],
                                               DEFAULT_DAMPING_FACTOR))
                      force == sim_shared.param_matrix[c1][c2].force
                  IN  /\ force > 0 => Dot(change, d) < 0 /\ Against(change, d)
                      /\ force < 0 => Dot(change, d) > 0 /\ Along(change, d)
                      /\ force = 0 => change = ZERO]_vars

\* With the strongest repulsion, the particle at (20, 0), at rest, has
\* been through a step with the other one 36 away on its left, and moves
\* to the right.
C30_Witness ==
    /\ StepDone
    /\ sim_shared.class_count = MAX_CLASSES
    /\ sim_shared.param_matrix[0][0].force = MAX_FORCE
    /\ move_start[0][0] = <<Fixed(20), 0>>
    /\ \E c \in Classes, p \in Slots :
          Active(sim_shared, c, p) /\ move_start[c][p] = <<-Fixed(16), Fixed(3)>>
    /\ move_start_velocities[0][0] = ZERO
    /\ particle_velocities[0][0][1] > 0
    /\ particle_positions[0][0][1] > Fixed(20)

\* The simulation thread takes the next collected event, of type t, to its
\* end.
EventOfTypeProcessed(t) ==
    /\ sim_pc = "events"
    /\ events /= <<>>
    /\ Head(events).type = t
    /\ events' = Tail(events)

\* update leaves move_particles and sends.
StepExecuted == sim_pc = "move" /\ sim_pc' /= "move"

\* This step puts exactly one result at the end of the result queue.
PublishedOne ==
    /\ Len(sim_rcv') = Len(sim_rcv) + 1
    /\ SubSeq(sim_rcv', 1, Len(sim_rcv)) = sim_rcv

\* C26: results are published one-to-one.  Each Spawn event processed
\* publishes exactly one result, with the duration absent and the positions
\* spawn has left, whatever the simulation state; each step executed
\* publishes exactly one result, with the duration present and the positions
\* the step has left; nothing else publishes: Play, Pause, Reset and the
\* configuration updates leave the result queue as it is, and the queue
\* grows in no other step.
C26_ResultsOneToOne ==
    [][/\ EventOfTypeProcessed("Spawn") =>
             /\ PublishedOne
             /\ sim_rcv'[Len(sim_rcv')].elapsed = <<>>
             /\ sim_rcv'[Len(sim_rcv')].positions = particle_positions'
       /\ StepExecuted =>
             /\ PublishedOne
             /\ sim_rcv'[Len(sim_rcv')].elapsed /= <<>>
             /\ sim_rcv'[Len(sim_rcv')].positions = particle_positions'
       /\ \A t \in {"Play", "Pause", "Reset", "ParamsUpdate", "ClassCountUpdate",
                    "ParticleCountsUpdate", "WorldRadiusUpdate"} :
             EventOfTypeProcessed(t) => sim_rcv' = sim_rcv
       /\ Len(sim_rcv') > Len(sim_rcv) =>
             EventOfTypeProcessed("Spawn") \/ StepExecuted]_vars

\* The result queue holds the result of a Spawn, and behind it the result
\* of a step.
C26_Witness ==
    /\ Len(sim_rcv) = 2
    /\ sim_rcv[1].elapsed = <<>>
    /\ sim_rcv[2].elapsed /= <<>>
    /\ steps = 1
    /\ sim_pc = "update"

\* The simulation thread is at a send of a result: it takes a Spawn event,
\* or it leaves move_particles with every pass done.
AtPublish ==
    \/ EventProcessed /\ Head(events).type = "Spawn"
    \/ sim_pc = "move" /\ c1 >= sim_shared.class_count /\ sim_pc' /= sim_pc

\* C27: when the receiver of the result queue no longer exists (the
\* presentation thread has ended, by closing or by a panic), the next
\* publish of the simulation thread, for a Spawn or after a step, aborts the
\* thread with a panic: nothing is put on the queue, and the loop does not
\* end as it does when update returns false.
C27_PublishWithoutReceiverAborts ==
    [][(ui_pc \in {"closed", "panicked"} /\ AtPublish) =>
          /\ sim_pc' = "panicked"
          /\ sim_pc' /= LoopAfterUpdate(FALSE)
          /\ sim_rcv' = sim_rcv]_vars

\* The presentation thread has panicked, and the simulation thread after it,
\* at the send of a Spawn whose loops were within bounds, before any step.
C27_Witness ==
    /\ ui_pc = "panicked"
    /\ sim_pc = "panicked"
    /\ last_event = "Spawn"
    /\ steps = 0
    /\ ~LoopsPanic(sim_shared)

\* No Spawn among the events of queue.
NoSpawnIn(queue) == \A i \in 1 .. Len(queue) : queue[i].type /= "Spawn"

\* The simulation thread takes the Spawn a slider handler has sent: the
\* handler of name has run last, and no Spawn has been sent after the one
\* taken.
SpawnOfSliderTaken(name) ==
    /\ EventProcessed
    /\ Head(events).type = "Spawn"
    /\ NoSpawnIn(Tail(events))
    /\ NoSpawnIn(ui_rcv)
    /\ last_ui = name

\* C31: when the presentation thread has changed the world radius, the
\* class count or a particle count and respawned, the simulation thread
\* holds the new value when it processes the Spawn of that change, and
\* spawn draws a position for every slot active under the new class count
\* and particle counts.
C31_UpdateBeforeItsSpawn ==
    [][/\ SpawnOfSliderTaken("world_radius") =>
             sim_shared.world_radius = ui_shared.world_radius
       /\ SpawnOfSliderTaken("class_count") =>
             /\ sim_shared.class_count = ui_shared.class_count
             /\ \A c \in Classes, p \in Slots :
                   Active([sim_shared EXCEPT
                              !.class_count = ui_shared.class_count], c, p) =>
                       particle_positions'[c][p] /= ZERO
       /\ SpawnOfSliderTaken("particle_count") =>
             /\ sim_shared.particle_counts = ui_shared.particle_counts
             /\ \A c \in Classes, p \in Slots :
                   Active([sim_shared EXCEPT
                              !.particle_counts = ui_shared.particle_counts],
                          c, p) =>
                       particle_positions'[c][p] /= ZERO]_vars

\* The command queue is empty and the simulation thread is between two
\* ticks, with every collected event processed; the presentation thread is
\* not in the middle of a handler's sends.
QueueEmptyBetweenTicks ==
    /\ ui_rcv = <<>>
    /\ sim_pc = "update"
    /\ events = <<>>
    /\ ui_sending = <<>>

\* C32: whenever the command queue is empty and the simulation thread is
\* between ticks, the engine's world radius, class count, particle counts
\* and parameter matrix equal those of the presentation thread's copy.
C32_EngineHoldsUiConfiguration ==
    QueueEmptyBetweenTicks =>
        Configuration(sim_shared) = Configuration(ui_shared)

\* The two copies of the simulation state are equal.
StatesAgree == sim_shared.simulation_state = ui_shared.simulation_state

\* A run's steps are spent: the tick that would take the next one does not
\* start.
StepsSpent ==
    /\ sim_pc = "update"
    /\ StateAfter(sim_shared.simulation_state, ui_rcv) = "Running"
    /\ steps >= MaxSteps

\* C33: after the presentation thread has issued play, pause or reset, the
\* engine's simulation state eventually equals the presentation thread's,
\* as long as the simulation thread keeps ticking; and the two are equal
\* whenever the command queue is empty and the simulation thread is between
\* ticks.
C33_SimulationStatesAgree ==
    /\ [](last_ui \in {"play", "pause", "reset"} => <>(StatesAgree \/ StepsSpent))
    /\ []((ui_rcv = <<>> /\ sim_pc = "update" /\ events = <<>>) => StatesAgree)

\* Pause, issued after play and a step, has reached the engine: both copies
\* are Paused, the queue is empty and the engine is between ticks.
C33_Witness ==
    /\ last_ui = "pause"
    /\ last_event = "Pause"
    /\ steps >= 1
    /\ ui_rcv = <<>>
    /\ sim_pc = "update"
    /\ events = <<>>
    /\ sim_shared.simulation_state = "Paused"
    /\ ui_shared.simulation_state = "Paused"

\* A frame shows the open inspector.
InspectorShown == last_ui' = "inspector" /\ ui_ops' = ui_ops + 1

\* C34: the upper bound of the inspector's index slider,
\* particle_counts[selected class] - 1, is never computed with a count of
\* 0, and the selected particle index stays below MAX_PARTICLE_COUNT.
C34_InspectorNeverUnderflows ==
    /\ [][InspectorShown =>
             ui_shared.particle_counts[selected_particle'[1]] > 0]_vars
    /\ [](selected_particle[2] < MAX_PARTICLE_COUNT)
====
